---- MODULE Spec2Model ----
(***************************************************************************)
(* Scripture-reference splitting of the lectionary merge script            *)
(* (data/merge-data/merge_lectionary.py).                                  *)
(*                                                                         *)
(* A Python str is a sequence of one-character strings; the regular        *)
(* expressions of the script are matchers over such sequences.             *)
(***************************************************************************)
EXTENDS Naturals, Integers, Sequences, FiniteSets, TLC

\* ------------------------------------------------------------------------
\* Characters and Python str helpers
\* ------------------------------------------------------------------------

\* \d of the re module, restricted to ASCII
Digit == {"0","1","2","3","4","5","6","7","8","9"}

UpperLetters == <<"A","B","C","D","E","F","G","H","I","J","K","L","M",
                  "N","O","P","Q","R","S","T","U","V","W","X","Y","Z">>

LowerLetters == <<"a","b","c","d","e","f","g","h","i","j","k","l","m",
                  "n","o","p","q","r","s","t","u","v","w","x","y","z">>

\* [A-Za-z]
Letter == {UpperLetters[k] : k \in 1..Len(UpperLetters)} \cup
          {LowerLetters[k] : k \in 1..Len(LowerLetters)}

\* \s of the re module and the characters str.strip() removes
Whitespace == {" "}

\* the case folding re.IGNORECASE applies to ASCII letters
CaseFold == [c \in {UpperLetters[k] : k \in 1..Len(UpperLetters)} |->
               LowerLetters[CHOOSE k \in 1..Len(UpperLetters) : UpperLetters[k] = c]]

ToLower(c) == IF c \in DOMAIN CaseFold THEN CaseFold[c] ELSE c

\* str.lower()
LowerStr(s) == [k \in 1..Len(s) |-> ToLower(s[k])]

\* Python's None, a value no str equals
None == <<"None">>

\* truth value of an Optional[str]: None and "" are false
Truthy(x) == x # None /\ x # <<>>

RECURSIVE LStrip(_)
LStrip(s) == IF s # <<>> /\ Head(s) \in Whitespace THEN LStrip(Tail(s)) ELSE s

RECURSIVE RStrip(_)
RStrip(s) ==
    IF s # <<>> /\ s[Len(s)] \in Whitespace
    THEN RStrip(SubSeq(s, 1, Len(s) - 1))
    ELSE s

\* str.strip()
Strip(s) == RStrip(LStrip(s))

\* str.startswith(p), case-sensitive
StartsWith(s, p) == Len(p) <= Len(s) /\ \A k \in 1..Len(p) : s[k] = p[k]

\* p occurs in s at position at (1-based), case-sensitive
OccursAt(s, at, p) ==
    at + Len(p) - 1 <= Len(s) /\ \A k \in 1..Len(p) : s[at + k - 1] = p[k]

\* p occurs in s at position at, ignoring letter case
OccursAtIgnoreCase(s, at, p) ==
    at + Len(p) - 1 <= Len(s) /\
    \A k \in 1..Len(p) : ToLower(s[at + k - 1]) = ToLower(p[k])

\* str.split(d) for a one-character separator: always at least one piece
RECURSIVE SplitOn(_, _)
SplitOn(s, d) ==
    IF \A k \in 1..Len(s) : s[k] # d
    THEN <<s>>
    ELSE LET k == CHOOSE k \in 1..Len(s) : s[k] = d /\ \A j \in 1..(k - 1) : s[j] # d
         IN  <<SubSeq(s, 1, k - 1)>> \o SplitOn(SubSeq(s, k + 1, Len(s)), d)

\* [f(x) for x in xs if x.strip()] with f = strip
StripAndDropEmpty(xs) ==
    SelectSeq([k \in 1..Len(xs) |-> Strip(xs[k])], LAMBDA x : x # <<>>)

\* [p.strip() for p in xs]
StripEach(xs) == [k \in 1..Len(xs) |-> Strip(xs[k])]

\* `p in s` for strings: p occurs somewhere in s
Contains(s, p) == \E at \in 1..(Len(s) - Len(p) + 1) : OccursAt(s, at, p)

\* the concatenation of a sequence of sequences
RECURSIVE Flatten(_)
Flatten(xs) == IF xs = <<>> THEN <<>> ELSE Head(xs) \o Flatten(Tail(xs))

\* position after a maximal run of whitespace starting at p
RECURSIVE SkipWhitespace(_, _)
SkipWhitespace(t, p) ==
    IF p <= Len(t) /\ t[p] \in Whitespace THEN SkipWhitespace(t, p + 1) ELSE p

\* ------------------------------------------------------------------------
\* Book name patterns
\* ------------------------------------------------------------------------

\* the alternatives of BOOK_PATTERN in source order; an optional character
\* (Psalms?, Proverbs?, Exod?\., Pss?\.) gives two entries, longer first
BOOK_PATTERN_NAMES == <<
    <<"G","e","n","e","s","i","s">>,
    <<"E","x","o","d","u","s">>,
    <<"L","e","v","i","t","i","c","u","s">>,
    <<"N","u","m","b","e","r","s">>,
    <<"D","e","u","t","e","r","o","n","o","m","y">>,
    <<"J","o","s","h","u","a">>,
    <<"J","u","d","g","e","s">>,
    <<"R","u","t","h">>,
    <<"1"," ","S","a","m","u","e","l">>,
    <<"2"," ","S","a","m","u","e","l">>,
    <<"1"," ","K","i","n","g","s">>,
    <<"2"," ","K","i","n","g","s">>,
    <<"1"," ","C","h","r","o","n","i","c","l","e","s">>,
    <<"2"," ","C","h","r","o","n","i","c","l","e","s">>,
    <<"E","z","r","a">>,
    <<"N","e","h","e","m","i","a","h">>,
    <<"E","s","t","h","e","r">>,
    <<"J","o","b">>,
    <<"P","s","a","l","m","s">>,
    <<"P","s","a","l","m">>,
    <<"P","r","o","v","e","r","b","s">>,
    <<"P","r","o","v","e","r","b">>,
    <<"E","c","c","l","e","s","i","a","s","t","e","s">>,
    <<"S","o","n","g"," ","o","f"," ","S","o","l","o","m","o","n">>,
    <<"S","o","n","g"," ","o","f"," ","S","o","n","g","s">>,
    <<"C","a","n","t","i","c","l","e","s">>,
    <<"I","s","a","i","a","h">>,
    <<"J","e","r","e","m","i","a","h">>,
    <<"L","a","m","e","n","t","a","t","i","o","n","s">>,
    <<"E","z","e","k","i","e","l">>,
    <<"D","a","n","i","e","l">>,
    <<"H","o","s","e","a">>,
    <<"J","o","e","l">>,
    <<"A","m","o","s">>,
    <<"O","b","a","d","i","a","h">>,
    <<"J","o","n","a","h">>,
    <<"M","i","c","a","h">>,
    <<"N","a","h","u","m">>,
    <<"H","a","b","a","k","k","u","k">>,
    <<"Z","e","p","h","a","n","i","a","h">>,
    <<"H","a","g","g","a","i">>,
    <<"Z","e","c","h","a","r","i","a","h">>,
    <<"M","a","l","a","c","h","i">>,
    <<"M","a","t","t","h","e","w">>,
    <<"M","a","r","k">>,
    <<"L","u","k","e">>,
    <<"J","o","h","n">>,
    <<"A","c","t","s">>,
    <<"R","o","m","a","n","s">>,
    <<"1"," ","C","o","r","i","n","t","h","i","a","n","s">>,
    <<"2"," ","C","o","r","i","n","t","h","i","a","n","s">>,
    <<"G","a","l","a","t","i","a","n","s">>,
    <<"E","p","h","e","s","i","a","n","s">>,
    <<"P","h","i","l","i","p","p","i","a","n","s">>,
    <<"C","o","l","o","s","s","i","a","n","s">>,
    <<"1"," ","T","h","e","s","s","a","l","o","n","i","a","n","s">>,
    <<"2"," ","T","h","e","s","s","a","l","o","n","i","a","n","s">>,
    <<"1"," ","T","i","m","o","t","h","y">>,
    <<"2"," ","T","i","m","o","t","h","y">>,
    <<"T","i","t","u","s">>,
    <<"P","h","i","l","e","m","o","n">>,
    <<"H","e","b","r","e","w","s">>,
    <<"J","a","m","e","s">>,
    <<"1"," ","P","e","t","e","r">>,
    <<"2"," ","P","e","t","e","r">>,
    <<"1"," ","J","o","h","n">>,
    <<"2"," ","J","o","h","n">>,
    <<"3"," ","J","o","h","n">>,
    <<"J","u","d","e">>,
    <<"R","e","v","e","l","a","t","i","o","n">>,
    <<"G","e","n",".">>,
    <<"E","x","o","d",".">>,
    <<"E","x","o",".">>,
    <<"L","e","v",".">>,
    <<"N","u","m",".">>,
    <<"D","e","u","t",".">>,
    <<"J","o","s","h",".">>,
    <<"J","u","d","g",".">>,
    <<"1"," ","S","a","m",".">>,
    <<"2"," ","S","a","m",".">>,
    <<"1"," ","K","g","s",".">>,
    <<"2"," ","K","g","s",".">>,
    <<"1"," ","C","h","r",".">>,
    <<"2"," ","C","h","r",".">>,
    <<"N","e","h",".">>,
    <<"E","s","t","h",".">>,
    <<"P","s","s",".">>,
    <<"P","s",".">>,
    <<"P","r","o","v",".">>,
    <<"E","c","c","l",".">>,
    <<"E","c","c","l","e","s",".">>,
    <<"S","o","n","g",".">>,
    <<"C","a","n","t",".">>,
    <<"I","s","a",".">>,
    <<"J","e","r",".">>,
    <<"L","a","m",".">>,
    <<"E","z","e","k",".">>,
    <<"D","a","n",".">>,
    <<"H","o","s",".">>,
    <<"O","b","a","d",".">>,
    <<"J","o","n",".">>,
    <<"M","i","c",".">>,
    <<"N","a","h",".">>,
    <<"H","a","b",".">>,
    <<"Z","e","p","h",".">>,
    <<"H","a","g",".">>,
    <<"Z","e","c","h",".">>,
    <<"M","a","l",".">>,
    <<"M","a","t","t",".">>,
    <<"M","t",".">>,
    <<"M","k",".">>,
    <<"L","k",".">>,
    <<"J","n",".">>,
    <<"R","o","m",".">>,
    <<"1"," ","C","o","r",".">>,
    <<"2"," ","C","o","r",".">>,
    <<"G","a","l",".">>,
    <<"E","p","h",".">>,
    <<"P","h","i","l",".">>,
    <<"C","o","l",".">>,
    <<"1"," ","T","h","e","s","s",".">>,
    <<"2"," ","T","h","e","s","s",".">>,
    <<"1"," ","T","i","m",".">>,
    <<"2"," ","T","i","m",".">>,
    <<"H","e","b",".">>,
    <<"J","a","s",".">>,
    <<"1"," ","P","e","t",".">>,
    <<"2"," ","P","e","t",".">>,
    <<"1"," ","J","n",".">>,
    <<"2"," ","J","n",".">>,
    <<"3"," ","J","n",".">>,
    <<"R","e","v",".">>,
    <<"W","i","s","d","."," ","o","f"," ","S","o","l",".">>,
    <<"W","i","s","d","o","m">>,
    <<"S","i","r","a","c","h">>,
    <<"E","c","c","l","e","s","i","a","s","t","i","c","u","s">>,
    <<"B","a","r","u","c","h">>,
    <<"1"," ","M","a","c","c","a","b","e","e","s">>,
    <<"2"," ","M","a","c","c","a","b","e","e","s">>,
    <<"T","o","b","i","t">>,
    <<"J","u","d","i","t","h">>
>>

\* \.?\s*[\d(] at position p: optional period, whitespace, then a digit or "("
BookFollow(t, p) ==
    \E q \in {p} \cup (IF p <= Len(t) /\ t[p] = "." THEN {p + 1} ELSE {}) :
        LET r == SkipWhitespace(t, q)
        IN  r <= Len(t) /\ (t[r] \in Digit \/ t[r] = "(")

\* BOOK_PATTERN.match(t): some alternative, letter case ignored, then BookFollow
BOOK_PATTERN(t) ==
    \E k \in 1..Len(BOOK_PATTERN_NAMES) :
        /\ OccursAtIgnoreCase(t, 1, BOOK_PATTERN_NAMES[k])
        /\ BookFollow(t, Len(BOOK_PATTERN_NAMES[k]) + 1)

\* the literal multi-word alternatives of BOOK_EXTRACT_PATTERN (case-sensitive:
\* the pattern is compiled without re.IGNORECASE)
\* the pattern without its multi-word alternatives
EXTRACT_SINGLE_WORD_ONLY == {}

EXTRACT_MULTI_WORD == {
    <<"S","o","n","g"," ","o","f"," ","S","o","l","o","m","o","n">>,
    <<"S","o","n","g"," ","o","f"," ","S","o","n","g","s">>,
    <<"W","i","s","d","."," ","o","f"," ","S","o","l",".">>,
    <<"W","i","s","d","o","m"," ","o","f"," ","S","o","l","o","m","o","n">> }

\* (?:\d\s+)? from position 1: the positions it can end before
ExtractLeadingNumber(t) ==
    {1} \cup {p \in 3..(Len(t) + 1) :
                 t[1] \in Digit /\ \A j \in 2..(p - 1) : t[j] \in Whitespace}

\* the book alternation from position p: the positions it can end before
ExtractBookBody(t, p) ==
    LET multi  == {p + Len(n) : n \in {m \in EXTRACT_MULTI_WORD : OccursAt(t, p, m)}}
        word   == {q \in (p + 1)..(Len(t) + 1) : \A j \in p..(q - 1) : t[j] \in Letter}
        abbrev == UNION {{r \in (q + 1)..(Len(t) + 1) :
                             t[q] = "." /\ \A j \in (q + 1)..(r - 1) : t[j] \in Letter}
                         : q \in {w \in word : w <= Len(t)}}
    IN  multi \cup word \cup abbrev

\* \.? at position q
ExtractOptPeriod(t, q) == {q} \cup (IF q <= Len(t) /\ t[q] = "." THEN {q + 1} ELSE {})

\* \s*(\d.*)$ from position e
ExtractChapterPart(t, e) ==
    LET r == SkipWhitespace(t, e) IN r <= Len(t) /\ t[r] \in Digit

\* the positions at which group 1 of BOOK_EXTRACT_PATTERN can end
ExtractGroupEnds(t) ==
    {e \in UNION {UNION {ExtractOptPeriod(t, q) : q \in ExtractBookBody(t, p)}
                  : p \in ExtractLeadingNumber(t)} :
        ExtractChapterPart(t, e)}

\* BOOK_EXTRACT_PATTERN.match(t): group 1, or None.  Group 1 holds no digit
\* after its leading number and is followed by \s*\d, so at most one end
\* position matches and the engine's backtracking order does not matter.
BOOK_EXTRACT_PATTERN(t) ==
    IF ExtractGroupEnds(t) = {}
    THEN None
    ELSE LET e == CHOOSE e \in ExtractGroupEnds(t) : \A f \in ExtractGroupEnds(t) : f <= e
         IN  SubSeq(t, 1, e - 1)

\* SOURCE_CORRECTIONS, in dict order: (wrong prefix, right prefix)
SOURCE_CORRECTIONS == <<
    <<<<"K","i","n","g","s"," ">>, <<"1"," ","K","i","n","g","s"," ">>>>,
    <<<<"L","a","m","e","n","t","a","t","i","o","n"," ">>, <<"L","a","m","e","n","t","a","t","i","o","n","s"," ">>>> >>

RECURSIVE ApplyCorrections(_, _)
ApplyCorrections(raw_, k) ==
    IF k > Len(SOURCE_CORRECTIONS)
    THEN raw_
    ELSE LET wrong == SOURCE_CORRECTIONS[k][1]
             right == SOURCE_CORRECTIONS[k][2]
         IN  ApplyCorrections(
                 IF StartsWith(raw_, wrong)
                 THEN right \o SubSeq(raw_, Len(wrong) + 1, Len(raw_))
                 ELSE raw_,
                 k + 1)

\* the citation left as the source spells it
correct_source_typos_skipped(raw_) == raw_

correct_source_typos(raw_) == ApplyCorrections(raw_, 1)

starts_with_book_name(text_) == BOOK_PATTERN(Strip(text_))

extract_book_name(reference) ==
    LET g == BOOK_EXTRACT_PATTERN(Strip(reference))
    IN  IF g # None THEN Strip(g) ELSE None

\* re.match(r'^\d+[a-z]?[:\-\d\s()a-z]*$', part, re.IGNORECASE): the class of
\* the third item contains the digits and letters of the first two, so the
\* match is a digit followed by characters of the class
VERSE_CLASS == Digit \cup Letter \cup Whitespace \cup {":", "-", "(", ")"}

VersePattern(part) ==
    /\ part # <<>>
    /\ part[1] \in Digit
    /\ \A k \in 2..Len(part) : part[k] \in VERSE_CLASS

\* ':' in part
HasColon(part) == \E k \in 1..Len(part) : part[k] = ":"

\* ------------------------------------------------------------------------
\* split_references
\* ------------------------------------------------------------------------

\* one edge_case_logger.warning(...) line, by its fields
EdgeCase(category, raw_, fragment, reading_type_) ==
    [category |-> category, raw |-> raw_, fragment |-> fragment,
     reading_type |-> reading_type_]

\* the EMPTY_RESULT message names no part
NoFragment == None

\* no exception has been raised
NoException == "none"

\* results.insert(0, x)
Prepend_(results_, x) == <<x>> \o results_

\* results.append(x)
Append_(results_, x) == Append(results_, x)

\* the book name left out
QualifyUnprefixed(book, part) == part

\* f"{current_book} {part}"
Qualify(book, part) == book \o <<" ">> \o part

\* lines 192-195: the part has its own book name
\* the part read as belonging to the book already current
OwnBookUnderCurrentBook(st, part) ==
    [st EXCEPT !.current_book = extract_book_name(part),
               !.results = Append_(st.results,
                   IF Truthy(st.current_book)
                   THEN Qualify(st.current_book, part) ELSE part)]

\* the book made current without its reference being emitted
OwnBookUnrecorded(st, part) ==
    [st EXCEPT !.current_book = extract_book_name(part)]

OwnBook(st, part) ==
    [st EXCEPT !.current_book = extract_book_name(part),
               !.results = Append_(st.results, part)]

\* the chapter:verse part joined to the last reference
NewReferenceJoined(st, part) ==
    IF st.results = <<>>
    THEN [st EXCEPT !.results = Append_(st.results, Qualify(st.current_book, part))]
    ELSE [st EXCEPT !.results[Len(st.results)] = @ \o <<",", " ">> \o part]

\* lines 206 and 212: a new reference in the current book
NewReference(st, part) ==
    [st EXCEPT !.results = Append_(st.results, Qualify(st.current_book, part))]

\* the continuation left out
ExtendLastDropped(st, part) == st

\* the verses emitted as a reference of their own
ExtendLastAsReference(st, part) ==
    [st EXCEPT !.results = Append_(st.results, Qualify(st.current_book, part))]

\* line 209: results[-1] = f"{results[-1]}, {part}"; results[-1] of an empty
\* list raises IndexError
ExtendLast(st, part) ==
    IF st.results = <<>>
    THEN [st EXCEPT !.exception = "IndexError"]
    ELSE [st EXCEPT !.results[Len(st.results)] = @ \o <<",", " ">> \o part]

\* the first word of the ambiguous part taken for the book
AmbiguousCommaAdoptsBook(st, part, raw_, reading_type_) ==
    [st EXCEPT
       !.edge_cases = Append(st.edge_cases,
           EdgeCase("COMMA_SPLIT_AMBIGUOUS", raw_, part, reading_type_)),
       !.results = Append_(st.results, Qualify(st.current_book, part)),
       !.current_book = extract_book_name(part)]

\* the ambiguous part logged twice
AmbiguousCommaLoggedTwice(st, part, raw_, reading_type_) ==
    [st EXCEPT
       !.edge_cases = st.edge_cases \o
           <<EdgeCase("COMMA_SPLIT_AMBIGUOUS", raw_, part, reading_type_),
             EdgeCase("COMMA_SPLIT_AMBIGUOUS", raw_, part, reading_type_)>>,
       !.results = Append_(st.results, Qualify(st.current_book, part))]

\* lines 213-219: not verse numbers
AmbiguousComma(st, part, raw_, reading_type_) ==
    [st EXCEPT
       !.edge_cases = Append(st.edge_cases,
           EdgeCase("COMMA_SPLIT_AMBIGUOUS", raw_, part, reading_type_)),
       !.results = Append_(st.results, Qualify(st.current_book, part))]

\* the first word of the unrecognised part taken for the book
NoBookContextAdoptsBook(st, part, raw_, reading_type_) ==
    [st EXCEPT
       !.edge_cases = Append(st.edge_cases,
           EdgeCase("NO_BOOK_CONTEXT", raw_, part, reading_type_)),
       !.results = Append_(st.results, part),
       !.current_book = part]

\* the part emitted without its warning
NoBookContextUnlogged(st, part, raw_, reading_type_) ==
    [st EXCEPT !.results = Append_(st.results, part)]

\* lines 220-226: no current book and the part does not start with one
NoBookContext(st, part, raw_, reading_type_) ==
    [st EXCEPT
       !.edge_cases = Append(st.edge_cases,
           EdgeCase("NO_BOOK_CONTEXT", raw_, part, reading_type_)),
       !.results = Append_(st.results, part)]

\* One iteration of the while loop over comma_parts (lines 186-228) on the
\* state st = [results, current_book, edge_cases, exception] of the call.
ProcessCommaPart(st, part_, raw_, reading_type_) ==
    LET part == Strip(part_) IN
    IF part = <<>> THEN st
    ELSE IF starts_with_book_name(part) THEN OwnBook(st, part)
    ELSE IF Truthy(st.current_book)
    THEN IF VersePattern(part)
         THEN IF st.results # <<>>
              THEN IF HasColon(part)
                   THEN NewReference(st, part)
                   ELSE ExtendLast(st, part)
              ELSE NewReference(st, part)
         ELSE AmbiguousComma(st, part, raw_, reading_type_)
    ELSE NoBookContext(st, part, raw_, reading_type_)

\* `raw.strip() == ""` alone: None is not caught
IsBlankNoneUnchecked(raw_) == raw_ # None /\ Strip(raw_) = <<>>

\* `not raw or raw.strip() == ""` (line 163)
IsBlank(raw_) == raw_ = None \/ raw_ = <<>> \/ Strip(raw_) = <<>>

\* raw after lines 166-169
Prepared(raw_) == correct_source_typos(Strip(raw_))

\* semi_parts (line 175)
SemiParts(text_) == StripAndDropEmpty(SplitOn(text_, ";"))

\* comma_parts (line 182)
CommaParts(semi_part) == StripEach(SplitOn(semi_part, ","))

\* no fallback to the original string
ValidateResultsNoFallback(st, raw_, reading_type_) == st

\* the fallback without its warning
ValidateResultsUnlogged(st, raw_, reading_type_) ==
    IF Len(st.results) = 0 /\ raw_ # <<>>
    THEN [st EXCEPT !.results = <<raw_>>]
    ELSE st

\* the fallback made for first readings only
ValidateResultsFirstOnly(st, raw_, reading_type_) ==
    IF Len(st.results) = 0 /\ raw_ # <<>> /\ reading_type_ = "first"
    THEN [st EXCEPT
            !.edge_cases = Append(st.edge_cases,
                EdgeCase("EMPTY_RESULT", raw_, NoFragment, reading_type_)),
            !.results = <<raw_>>]
    ELSE st

\* lines 230-233 on the state of the call
ValidateResults(st, raw_, reading_type_) ==
    IF Len(st.results) = 0 /\ raw_ # <<>>
    THEN [st EXCEPT
            !.edge_cases = Append(st.edge_cases,
                EdgeCase("EMPTY_RESULT", raw_, NoFragment, reading_type_)),
            !.results = <<raw_>>]
    ELSE st

\* the state of a call at line 172
EmptyCall ==
    [results |-> <<>>, current_book |-> None, edge_cases |-> <<>>,
     exception |-> NoException]

\* the while loop over one comma_parts, until an exception
RECURSIVE WalkCommaParts(_, _, _, _)
WalkCommaParts(st, parts, raw_, reading_type_) ==
    IF parts = <<>> \/ st.exception # NoException
    THEN st
    ELSE WalkCommaParts(ProcessCommaPart(st, Head(parts), raw_, reading_type_),
                        Tail(parts), raw_, reading_type_)

\* the for loop over semi_parts
RECURSIVE WalkSemiParts(_, _, _, _)
WalkSemiParts(st, segments, raw_, reading_type_) ==
    IF segments = <<>> \/ st.exception # NoException
    THEN st
    ELSE WalkSemiParts(
             WalkCommaParts(st, CommaParts(Head(segments)), raw_, reading_type_),
             Tail(segments), raw_, reading_type_)

\* split_references(raw, reading_type) as a function: the state of the call
\* when it returns or raises
split_references(raw_, reading_type_) ==
    IF IsBlank(raw_)
    THEN EmptyCall
    ELSE IF raw_ = None
    THEN [EmptyCall EXCEPT !.exception = "AttributeError"]
    ELSE LET t  == Prepared(raw_)
             st == WalkSemiParts(EmptyCall, SemiParts(t), t, reading_type_)
         IN  IF st.exception # NoException
             THEN st
             ELSE ValidateResults(st, t, reading_type_)

\* ------------------------------------------------------------------------
\* Inputs
\* ------------------------------------------------------------------------

\* most comma/semicolon-delimited sub-parts of a generated citation
MaxParts == 3

\* reading_type as merge_readings passes it
ReadingTypes == {"first", "gospel"}

PART_BOOK == <<"J","o","h","n"," ","9",":","1">>

PART_MULTI_WORD == <<"S","o","n","g"," ","o","f"," ","S","o","l","o","m","o","n"," ","1",":","1">>

PART_PAREN == <<"A","c","t","s"," ","(","1",":","2",")"," ","3",":","4">>

PART_VERSES == <<"3","5","-","3","8">>

PART_CHAPTER == <<"1","3",":","3">>

PART_PROSE == <<"n","o","t","e">>

PART_TYPO == <<"K","i","n","g","s"," ","3",":","5">>

SampleParts == {PART_BOOK, PART_MULTI_WORD, PART_PAREN, PART_VERSES, PART_CHAPTER,
                PART_PROSE, PART_TYPO}

Delimiters == {<<",", " ">>, <<";", " ">>}

RECURSIVE CitationsOf(_)
CitationsOf(n) ==
    IF n = 1
    THEN SampleParts
    ELSE {c \o d \o p : c \in CitationsOf(n - 1), d \in Delimiters, p \in SampleParts}

\* degenerate citations: absent, empty, blank, delimiters only, empty sub-parts
\* and segments, surrounding whitespace, prose after a typo prefix or a book
DegenerateCitations == {
    None,
    <<>>,
    <<" ">>,
    <<";">>,
    <<" ",","," ",";"," ">>,
    <<"J","o","h","n"," ","9",":","1",";",","," ","3","5","-","3","8">>,
    <<";"," ","J","o","h","n"," ","9",":","1">>,
    <<" ","n","o","t","e"," ">>,
    <<"K","i","n","g","s"," ","n","o","t","e">>,
    <<"J","o","h","n"," ","n","o","t","e">> }

\* citations with further entries of the registry and of the correction
\* table: a numbered book after a comma, the other multi-word names, the
\* second source typo at the start and after a semicolon
RegistryCitations == {
    <<"J","o","h","n"," ","9",":","1",","," ","1"," ","J","o","h","n"," ","3",":","1">>,
    <<"J","o","h","n"," ","9",":","1",","," ","1"," ","J","o","h","n"," ","3">>,
    <<"W","i","s","d","."," ","o","f"," ","S","o","l","."," ","1",":","1",";"," ","1","3",":","3">>,
    <<"S","o","n","g"," ","o","f"," ","S","o","n","g","s"," ","2",":","1",","," ","1","3",":","3">>,
    <<"L","a","m","e","n","t","a","t","i","o","n"," ","1",":","1",","," ","3","5","-","3","8">>,
    <<"J","o","h","n"," ","9",":","1",";"," ","L","a","m","e","n","t","a","t","i","o","n"," ","1",":","1">> }

\* the raw citations of the model
Citations ==
    UNION {CitationsOf(n) : n \in 1..MaxParts} \cup DegenerateCitations
        \cup RegistryCitations

\* ------------------------------------------------------------------------
\* One split_references call, one loop iteration per step
\* ------------------------------------------------------------------------

VARIABLES
    raw,              \* the argument raw
    reading_type,     \* the argument reading_type
    pc,               \* "call", "walk", "validate", "done", "raised"
    text,             \* the local raw after strip and typo correction
    semi_parts,       \* semi_parts
    semi_index,       \* position of the for loop in semi_parts, 1-based
    comma_parts,      \* comma_parts of the current semi_part
    i,                \* i, 1-based
    results,          \* results
    current_book,     \* current_book
    edge_cases,       \* the lines edge_case_logger has written in this call,
                      \* oldest first
    exception,        \* the exception the call raised, or NoException
    result_segments,  \* history: for each entry of results, the positions of
                      \* the semi_parts whose text it holds
    steps,            \* history: the steps the call has taken
    previous          \* history: the sub-part of the latest loop iteration
                      \* and the locals as that iteration found them

splitVars ==
    <<raw, reading_type, pc, text, semi_parts, semi_index, comma_parts, i,
      results, current_book, edge_cases, exception, result_segments, steps,
      previous>>

\* A run of several split_references calls, one after the other
VARIABLES
    logged,           \* the lines edge_case_logger wrote in the earlier calls
    calls             \* the number of calls made so far

sessionVars == <<logged, calls>>

SessionIdle == logged = <<>> /\ calls = 1

\* One split_psalm_references call, one loop iteration per step
VARIABLES
    psalm_raw,        \* the argument raw
    psalm_pc,         \* "idle", "call", "loop", "done"
    parts,            \* parts
    part_index,       \* position of the for loop in parts, 1-based
    psalm_results     \* results

psalmVars == <<psalm_raw, psalm_pc, parts, part_index, psalm_results>>

PsalmIdle ==
    /\ psalm_raw = None /\ psalm_pc = "idle" /\ parts = <<>>
    /\ part_index = 0 /\ psalm_results = <<>>

\* Several split_references calls running concurrently
VARIABLES
    workers,          \* for each parse, the arguments and locals of its call
    sink              \* the lines written to the edge-case log, oldest first,
                      \* each with the parse that wrote it

poolVars == <<workers, sink>>

PoolIdle == workers = <<>> /\ sink = <<>>

\* Python's None where the other values are dicts: a record no dict equals
NoDict == [none |-> TRUE]

\* One merge_lectionary call, one loop iteration per step
VARIABLES
    plan,             \* the argument plan: year_1_dates and year_2_dates
    scraped_readings, \* scraped_readings: date -> scraped page
    merge_pc,         \* "idle", "year_1", "year_2", "validate", "return", "done"
    entry_index,      \* position of the running for loop, 1-based
    positions,        \* positions: position key -> data
    position_keys,    \* the keys of positions in insertion order
    daily_lectionary, \* daily_lectionary
    missing_year_1,   \* missing_year_1
    missing_year_2,   \* missing_year_2
    missing_both,     \* missing_both
    merge_log,        \* the lines edge_case_logger has written, oldest first
    output            \* the returned dict, or NoDict

mergeVars ==
    <<plan, scraped_readings, merge_pc, entry_index, positions, position_keys,
      daily_lectionary, missing_year_1, missing_year_2, missing_both,
      merge_log, output>>

MergeIdle ==
    /\ plan = [year_1_dates |-> <<>>, year_2_dates |-> <<>>]
    /\ scraped_readings = <<>> /\ merge_pc = "idle" /\ entry_index = 0
    /\ positions = <<>> /\ position_keys = <<>> /\ daily_lectionary = <<>>
    /\ missing_year_1 = 0 /\ missing_year_2 = 0 /\ missing_both = 0
    /\ merge_log = <<>> /\ output = NoDict

\* Runs of the scraper over a progress file
VARIABLES
    progress_file,    \* the content of PROGRESS_FILE, or NoFile
    progress,         \* run_scraper's local progress
    remaining_urls,   \* remaining_urls, each url by its date
    url_index,        \* position of the for loop in remaining_urls, 1-based
    scraper_pc,       \* "stopped", "scrape", "save", "sleep"
    runs,             \* the number of run_scraper calls so far
    fetched,          \* the dates scrape_date has returned a page for
    refetched         \* the dates scrape_date was called for while the
                      \* progress file had them under "completed"

scraperVars ==
    <<progress_file, progress, remaining_urls, url_index, scraper_pc, runs,
      fetched, refetched>>

\* no PROGRESS_FILE exists
NoFile == [none |-> TRUE]

ScraperIdle ==
    /\ progress_file = NoFile /\ progress = NoFile /\ remaining_urls = <<>>
    /\ url_index = 0 /\ scraper_pc = "stopped" /\ runs = 0
    /\ fetched = {} /\ refetched = {}

\* main of the date generator choosing the source years of the dated weeks
\* and adding their dates to the two lists
VARIABLES
    cycle,            \* 1 for year1_dates, 2 for year2_dates
    range_index,      \* position of the loop over DATED_WEEK_RANGES, 1-based
    gen_pc,           \* "idle", "sources", "range", "loop", "sort", "done"
    source_year,      \* source_year of the running generate_dated_week_dates
    current,          \* current of generate_dated_week_dates, a day number
    dates,            \* dates of generate_dated_week_dates
    dated_week_sources, \* dated_week_sources: for each cycle, the source
                      \* year of each dated week found so far
    year_dates        \* for each cycle, the entries main has added to
                      \* year1_dates or year2_dates after the base dates

datesVars ==
    <<cycle, range_index, gen_pc, source_year, current, dates,
      dated_week_sources, year_dates>>

\* None where a year is expected
NoYear == 0

\* None where a datetime is expected
NoDate == 0

DatesIdle ==
    /\ cycle = 1 /\ range_index = 0 /\ gen_pc = "idle" /\ source_year = NoYear
    /\ current = NoDate /\ dates = <<>>
    /\ dated_week_sources = <<>> /\ year_dates = <<>>

\* the variables a split_references call leaves alone
outsideSplit ==
    <<sessionVars, psalmVars, poolVars, mergeVars, scraperVars, datesVars>>

vars ==
    <<splitVars, sessionVars, psalmVars, poolVars, mergeVars, scraperVars,
      datesVars>>

\* no split_references call is under way
SplitIdle ==
    /\ raw = None /\ reading_type = "first" /\ pc = "idle"
    /\ text = <<>> /\ semi_parts = <<>> /\ semi_index = 0
    /\ comma_parts = <<>> /\ i = 0 /\ results = <<>>
    /\ current_book = None /\ edge_cases = <<>> /\ exception = NoException
    /\ result_segments = <<>> /\ steps = 0
    /\ previous = [walked |-> FALSE, part |-> <<>>, results |-> <<>>,
                   current_book |-> None, edge_cases |-> <<>>,
                   semi_index |-> 0, i |-> 0]

\* the state of the call as ProcessCommaPart takes it
CallState ==
    [results |-> results, current_book |-> current_book,
     edge_cases |-> edge_cases, exception |-> exception]

Init ==
    /\ raw \in Citations
    /\ reading_type \in ReadingTypes
    /\ pc = "call"
    /\ text = <<>>
    /\ semi_parts = <<>>
    /\ semi_index = 0
    /\ comma_parts = <<>>
    /\ i = 0
    /\ results = <<>>
    /\ current_book = None
    /\ edge_cases = <<>>
    /\ exception = NoException
    /\ result_segments = <<>>
    /\ steps = 0
    /\ previous = [walked |-> FALSE, part |-> <<>>, results |-> <<>>,
                   current_book |-> None, edge_cases |-> <<>>,
                   semi_index |-> 0, i |-> 0]
    /\ SessionIdle
    /\ PsalmIdle
    /\ PoolIdle
    /\ MergeIdle
    /\ ScraperIdle
    /\ DatesIdle

\* the locals without the assignment of current_book
InitialLocalsBookKept(st) == [st EXCEPT !.results = <<>>]

\* lines 171-172: results = [] and current_book = None
InitialLocals(st) == [st EXCEPT !.results = <<>>, !.current_book = None]

\* lines 163-182: the early return, or the preparation up to the first
\* comma_parts; raw.strip() of None raises AttributeError
Call ==
    /\ pc = "call"
    /\ IF IsBlank(raw)
       THEN /\ pc' = "done"
            /\ results' = <<>>
            /\ current_book' = None
            /\ UNCHANGED <<text, semi_parts, semi_index, comma_parts, i, exception>>
       ELSE IF raw = None
       THEN /\ pc' = "raised"
            /\ exception' = "AttributeError"
            /\ results' = <<>>
            /\ current_book' = None
            /\ UNCHANGED <<text, semi_parts, semi_index, comma_parts, i>>
       ELSE LET t  == Prepared(raw)
                sp == SemiParts(t)
                st == InitialLocals(CallState)
            IN  /\ text' = t
                /\ results' = st.results
                /\ current_book' = st.current_book
                /\ semi_parts' = sp
                /\ exception' = exception
                /\ IF sp = <<>>
                   THEN /\ pc' = "validate"
                        /\ UNCHANGED <<semi_index, comma_parts, i>>
                   ELSE /\ pc' = "walk"
                        /\ semi_index' = 1
                        /\ comma_parts' = CommaParts(sp[1])
                        /\ i' = 1
    /\ steps' = steps + 1
    /\ UNCHANGED <<raw, reading_type, edge_cases, result_segments, previous>>
    /\ UNCHANGED outsideSplit

\* the history of a loop iteration that took results to results_
SegmentsAfter(results_) ==
    IF Len(results_) > Len(results)
    THEN Append(result_segments, {semi_index})
    ELSE IF results_ # results /\ results_ # <<>>
    THEN [result_segments EXCEPT ![Len(result_segments)] = @ \cup {semi_index}]
    ELSE result_segments

\* lines 185-228: one iteration of the while loop, then the loop headers
WalkPart ==
    /\ pc = "walk"
    /\ LET st == ProcessCommaPart(CallState, comma_parts[i], text, reading_type)
       IN  /\ results' = st.results
           /\ current_book' = st.current_book
           /\ edge_cases' = st.edge_cases
           /\ exception' = st.exception
           /\ result_segments' = SegmentsAfter(st.results)
           /\ IF st.exception # NoException
              THEN /\ pc' = "raised"
                   /\ UNCHANGED <<semi_index, comma_parts, i>>
              ELSE IF i < Len(comma_parts)
              THEN /\ i' = i + 1
                   /\ UNCHANGED <<pc, semi_index, comma_parts>>
              ELSE IF semi_index < Len(semi_parts)
              THEN /\ semi_index' = semi_index + 1
                   /\ comma_parts' = CommaParts(semi_parts[semi_index + 1])
                   /\ i' = 1
                   /\ UNCHANGED pc
              ELSE /\ pc' = "validate"
                   /\ UNCHANGED <<semi_index, comma_parts, i>>
    /\ steps' = steps + 1
    /\ previous' = [walked |-> TRUE, part |-> Strip(comma_parts[i]),
                    results |-> results, current_book |-> current_book,
                    edge_cases |-> edge_cases, semi_index |-> semi_index, i |-> i]
    /\ UNCHANGED <<raw, reading_type, text, semi_parts>>
    /\ UNCHANGED outsideSplit

\* lines 230-235
Validate ==
    /\ pc = "validate"
    /\ LET st == ValidateResults(CallState, text, reading_type)
       IN  /\ results' = st.results
           /\ edge_cases' = st.edge_cases
           /\ result_segments' =
                  IF st.results = results THEN result_segments
                  ELSE [k \in 1..Len(st.results) |-> {}]
    /\ pc' = "done"
    /\ steps' = steps + 1
    /\ UNCHANGED <<raw, reading_type, text, semi_parts, semi_index, comma_parts, i,
                   current_book, exception, previous>>
    /\ UNCHANGED outsideSplit

Next == Call \/ WalkPart \/ Validate

Spec == Init /\ [][Next]_vars

\* ------------------------------------------------------------------------
\* One split_psalm_references call, one loop iteration per step
\* ------------------------------------------------------------------------

\* the prefix removed only as the source spells it
StripPsalmPrefixCaseSensitive(s) ==
    IF StartsWith(s, <<"P","s","a","l","m">>)
    THEN LET p == IF Len(s) >= 6 /\ s[6] = "s" THEN 7 ELSE 6
         IN  SubSeq(s, SkipWhitespace(s, p), Len(s))
    ELSE s

\* re.sub(r'^Psalms?\s*', '', raw, flags=re.IGNORECASE) (line 250)
StripPsalmPrefix(s) ==
    IF OccursAtIgnoreCase(s, 1, <<"P","s","a","l","m">>)
    THEN LET p == IF Len(s) >= 6 /\ ToLower(s[6]) = "s" THEN 7 ELSE 6
         IN  SubSeq(s, SkipWhitespace(s, p), Len(s))
    ELSE s

\* parts (line 253)
PsalmParts(raw_) == StripAndDropEmpty(SplitOn(StripPsalmPrefix(Strip(raw_)), ";"))

\* the ways the scraped Morning and Evening values open
PsalmPrefixes == {
    <<>>,
    <<"P","s","a","l","m"," ">>,
    <<"P","s","a","l","m","s"," ">>,
    <<"p","s","a","l","m"," ">>,
    <<"P","S","A","L","M">>,
    <<"P","s","a","l","m","s">> }

\* what follows the prefix: the forms of psalm_test_cases, and empty
\* segments, a comma, a repeated prefix
PsalmBodies == {
    <<"1","2","2",";"," ","1","4","5">>,
    <<"8","9",":","1","-","1","8",";"," ","1","4","7",":","1","-","1","1">>,
    <<"4","6",","," ","9","7",";"," ","1","4","7",":","1","-","1","1">>,
    <<" ",";"," ","2","4",";">>,
    <<>>,
    <<"P","s","a","l","m"," ","1","5","0",";"," ","1">>,
    <<"1","1","9",":","7","3","-","8","0">> }

\* the raw arguments of split_psalm_references
PsalmCitations ==
    {p \o b : p \in PsalmPrefixes, b \in PsalmBodies} \cup {None, <<" ">>}

PsalmInit ==
    /\ psalm_raw \in PsalmCitations
    /\ psalm_pc = "call"
    /\ parts = <<>>
    /\ part_index = 0
    /\ psalm_results = <<>>
    /\ SplitIdle
    /\ SessionIdle
    /\ PoolIdle
    /\ MergeIdle
    /\ ScraperIdle
    /\ DatesIdle

\* lines 243-255: the early return, or the preparation up to the loop
PsalmCall ==
    /\ psalm_pc = "call"
    /\ IF IsBlank(psalm_raw)
       THEN /\ psalm_pc' = "done"
            /\ UNCHANGED <<parts, part_index>>
       ELSE LET ps == PsalmParts(psalm_raw)
            IN  /\ parts' = ps
                /\ IF ps = <<>>
                   THEN psalm_pc' = "done" /\ UNCHANGED part_index
                   ELSE psalm_pc' = "loop" /\ part_index' = 1
    /\ psalm_results' = <<>>
    /\ UNCHANGED <<psalm_raw, splitVars, sessionVars, poolVars, mergeVars,
                 scraperVars, datesVars>>

\* lines 256-259: one iteration of the for loop
PsalmAppend ==
    /\ psalm_pc = "loop"
    /\ psalm_results' = Append(psalm_results, parts[part_index])
    /\ IF part_index < Len(parts)
       THEN part_index' = part_index + 1 /\ UNCHANGED psalm_pc
       ELSE psalm_pc' = "done" /\ UNCHANGED part_index
    /\ UNCHANGED <<psalm_raw, parts, splitVars, sessionVars, poolVars, mergeVars,
                 scraperVars, datesVars>>

PsalmNext == PsalmCall \/ PsalmAppend

PsalmSpec == PsalmInit /\ [][PsalmNext]_vars

\* ------------------------------------------------------------------------
\* Several split_references calls, one after the other
\* ------------------------------------------------------------------------

\* most calls of a run
MaxCalls == 2

\* the raw arguments of the calls of a run
SessionCitations == {
    <<"J","o","h","n"," ","9",":","1",","," ","3","5","-","3","8">>,
    <<"1","3",":","3",","," ","n","o","t","e">>,
    <<" ",";"," ">>,
    <<"3","5","-","3","8">>,
    <<"A","c","t","s"," ","(","1",":","2",")"," ","3",":","4",","," ","1","3",":","3">> }

SessionInit ==
    /\ raw \in SessionCitations
    /\ reading_type \in ReadingTypes
    /\ pc = "call"
    /\ text = <<>>
    /\ semi_parts = <<>>
    /\ semi_index = 0
    /\ comma_parts = <<>>
    /\ i = 0
    /\ results = <<>>
    /\ current_book = None
    /\ edge_cases = <<>>
    /\ exception = NoException
    /\ result_segments = <<>>
    /\ steps = 0
    /\ previous = [walked |-> FALSE, part |-> <<>>, results |-> <<>>,
                   current_book |-> None, edge_cases |-> <<>>,
                   semi_index |-> 0, i |-> 0]
    /\ SessionIdle
    /\ PsalmIdle
    /\ PoolIdle
    /\ MergeIdle
    /\ ScraperIdle
    /\ DatesIdle

\* line 235 and line 147: the call returns and the caller calls again.  The
\* frame of the new call binds results and current_book at lines 171-172
\* only; until then the model keeps what the names held last.
NextCitation ==
    /\ pc = "done"
    /\ calls < MaxCalls
    /\ raw' \in SessionCitations
    /\ reading_type' \in ReadingTypes
    /\ pc' = "call"
    /\ text' = <<>>
    /\ semi_parts' = <<>>
    /\ semi_index' = 0
    /\ comma_parts' = <<>>
    /\ i' = 0
    /\ logged' = logged \o edge_cases
    /\ edge_cases' = <<>>
    /\ result_segments' = <<>>
    /\ steps' = 0
    /\ previous' = [walked |-> FALSE, part |-> <<>>, results |-> <<>>,
                    current_book |-> None, edge_cases |-> <<>>,
                    semi_index |-> 0, i |-> 0]
    /\ calls' = calls + 1
    /\ UNCHANGED <<results, current_book, exception, psalmVars, poolVars, mergeVars,
                 scraperVars, datesVars>>

SessionNext == Call \/ WalkPart \/ Validate \/ NextCitation

SessionSpec == SessionInit /\ [][SessionNext]_vars

\* ------------------------------------------------------------------------
\* Several split_references calls running concurrently, one loop iteration
\* of one call per step, the log written under the handler's lock
\* ------------------------------------------------------------------------

\* number of concurrent parses
NumWorkers == 2

Workers == 1..NumWorkers

\* the raw arguments of the concurrent calls
PoolCitations == {
    <<"1","3",":","3",","," ","n","o","t","e">>,
    <<" ",";"," ">>,
    <<"J","o","h","n"," ","9",":","1",","," ","n","o","t","e">> }

\* a call at line 147
EnteredCall(raw_, reading_type_) ==
    [raw |-> raw_, reading_type |-> reading_type_, pc |-> "call",
     text |-> <<>>, semi_parts |-> <<>>, semi_index |-> 0,
     comma_parts |-> <<>>, i |-> 0, results |-> <<>>, current_book |-> None,
     edge_cases |-> <<>>, exception |-> NoException]

\* the locals of the call s as ProcessCommaPart takes them
LocalsOf(s) ==
    [results |-> s.results, current_book |-> s.current_book,
     edge_cases |-> s.edge_cases, exception |-> s.exception]

\* lines 163-182 on the call s
AdvanceCall(s) ==
    IF IsBlank(s.raw)
    THEN [s EXCEPT !.pc = "done"]
    ELSE IF s.raw = None
    THEN [s EXCEPT !.pc = "raised", !.exception = "AttributeError"]
    ELSE LET t  == Prepared(s.raw)
             sp == SemiParts(t)
             st == InitialLocals(LocalsOf(s))
         IN  IF sp = <<>>
             THEN [s EXCEPT !.text = t, !.semi_parts = sp, !.pc = "validate",
                            !.results = st.results,
                            !.current_book = st.current_book]
             ELSE [s EXCEPT !.text = t, !.semi_parts = sp, !.pc = "walk",
                            !.results = st.results,
                            !.current_book = st.current_book,
                            !.semi_index = 1,
                            !.comma_parts = CommaParts(sp[1]), !.i = 1]

\* lines 185-228 on the call s: one iteration, then the loop headers
AdvanceWalk(s) ==
    LET st == ProcessCommaPart(LocalsOf(s), s.comma_parts[s.i], s.text,
                               s.reading_type)
        u  == [s EXCEPT !.results = st.results,
                        !.current_book = st.current_book,
                        !.edge_cases = st.edge_cases,
                        !.exception = st.exception]
    IN  IF st.exception # NoException
        THEN [u EXCEPT !.pc = "raised"]
        ELSE IF s.i < Len(s.comma_parts)
        THEN [u EXCEPT !.i = s.i + 1]
        ELSE IF s.semi_index < Len(s.semi_parts)
        THEN [u EXCEPT !.semi_index = s.semi_index + 1,
                       !.comma_parts = CommaParts(s.semi_parts[s.semi_index + 1]),
                       !.i = 1]
        ELSE [u EXCEPT !.pc = "validate"]

\* lines 230-235 on the call s
AdvanceValidate(s) ==
    LET st == ValidateResults(LocalsOf(s), s.text, s.reading_type)
    IN  [s EXCEPT !.results = st.results, !.edge_cases = st.edge_cases,
                  !.pc = "done"]

\* the next step of the call s
Advance(s) ==
    IF s.pc = "call" THEN AdvanceCall(s)
    ELSE IF s.pc = "walk" THEN AdvanceWalk(s)
    ELSE AdvanceValidate(s)

\* the log file opened anew for the line
SinkWriteTruncating(sink_, entry) == <<entry>>

\* edge_case_handler.emit under the handler's lock: the line is appended
SinkWrite(sink_, entry) == Append(sink_, entry)

\* the lines the step from s to t wrote, written by parse w
RECURSIVE SinkWriteAll(_, _, _)
SinkWriteAll(sink_, w, lines) ==
    IF lines = <<>>
    THEN sink_
    ELSE SinkWriteAll(SinkWrite(sink_, [parse |-> w, record |-> Head(lines)]),
                      w, Tail(lines))

PoolInit ==
    /\ workers \in [Workers ->
           {EnteredCall(c, t) : c \in PoolCitations, t \in ReadingTypes}]
    /\ sink = <<>>
    /\ SplitIdle
    /\ SessionIdle
    /\ PsalmIdle
    /\ MergeIdle
    /\ ScraperIdle
    /\ DatesIdle

\* parse w takes its next step
PoolStep(w) ==
    /\ workers[w].pc \in {"call", "walk", "validate"}
    /\ LET s == workers[w]
           t == Advance(s)
       IN  /\ workers' = [workers EXCEPT ![w] = t]
           /\ sink' = SinkWriteAll(sink, w,
                  SubSeq(t.edge_cases, Len(s.edge_cases) + 1, Len(t.edge_cases)))
    /\ UNCHANGED <<splitVars, sessionVars, psalmVars, mergeVars,
                 scraperVars, datesVars>>

PoolNext == \E w \in Workers : PoolStep(w)

PoolSpec == PoolInit /\ [][PoolNext]_vars

\* ------------------------------------------------------------------------
\* merge_readings, merge_psalms and their inputs
\* ------------------------------------------------------------------------

\* split_psalm_references(raw) as a function (lines 238-262)
split_psalm_references(raw_) == IF IsBlank(raw_) THEN <<>> ELSE PsalmParts(raw_)

\* lines 109-112
MONTHS == <<
    <<"J","a","n","u","a","r","y">>,
    <<"F","e","b","r","u","a","r","y">>,
    <<"M","a","r","c","h">>,
    <<"A","p","r","i","l">>,
    <<"M","a","y">>,
    <<"J","u","n","e">>,
    <<"J","u","l","y">>,
    <<"A","u","g","u","s","t">>,
    <<"S","e","p","t","e","m","b","e","r">>,
    <<"O","c","t","o","b","e","r">>,
    <<"N","o","v","e","m","b","e","r">>,
    <<"D","e","c","e","m","b","e","r">> >>

\* lines 269-286
infer_period_type(period, day_identifier) ==
    IF Contains(period, <<"f","o","l","l","o","w","i","n","g"," ","S","u","n","."," ","b","e","t","w","e","e","n">>)
    THEN "dated_week"
    ELSE IF day_identifier # <<>>
            /\ \E k \in 1..Len(MONTHS) : Contains(day_identifier, MONTHS[k])
    THEN "fixed_days"
    ELSE "liturgical_week"

\* lines 310-312: f"{period}|{day_identifier}"
create_position_key(period, day_identifier) == period \o <<"|">> \o day_identifier

\* dict.get(key): the value, or None for a key the dict does not hold
Get(d, key) == IF key \in DOMAIN d THEN d[key] ELSE None

\* the dict appended for a reading, with the lines split_references logged
\* for it
EntryOf(st, label, position) ==
    <<[position |-> position, label |-> label,
       references |-> st.results, log |-> st.edge_cases]>>

\* the entry added whether or not the page holds the reading
ReadingEntryUnchecked(raw_readings, key, label, position) ==
    EntryOf(split_references(Get(raw_readings, key), label), label, position)

\* lines 345-351, 354-360, 363-369: the entry of one reading, if the page
\* holds it, with the lines split_references logs for it
ReadingEntry(raw_readings, key, label, position) ==
    IF Truthy(Get(raw_readings, key))
    THEN EntryOf(split_references(raw_readings[key], label), label, position)
    ELSE <<>>

\* a line of edge_case_logger written by the merge itself
MergeRecord(category, period, day_identifier, date) ==
    [category |-> category, period |-> period,
     day_identifier |-> day_identifier, date |-> date]

\* lines 315-379: the returned value and the lines logged
\* lines 341-369: the entries of the readings the page holds, in order
FoundReadings(raw_readings) ==
    ReadingEntry(raw_readings, "First Reading", "first", 1)
    \o ReadingEntry(raw_readings, "Second Reading", "second", 2)
    \o ReadingEntry(raw_readings, "Gospel", "gospel", 3)

\* lines 371-379: the value returned for the entries found
ReadingsResult(found, plan_entry) ==
    IF found = <<>>
    THEN [value |-> NoDict,
          log |-> <<MergeRecord("NO_READINGS", plan_entry.period,
                                plan_entry.day_identifier, plan_entry.date)>>]
    ELSE [value |-> [readings |-> [k \in 1..Len(found) |->
                                      [position |-> found[k].position,
                                       label |-> found[k].label,
                                       references |-> found[k].references]]],
          log |-> Flatten([k \in 1..Len(found) |-> found[k].log])]

\* lines 315-379: the returned value and the lines logged
merge_readings(plan_entry, scraped_readings_, year_num) ==
    IF plan_entry.date \notin DOMAIN scraped_readings_
    THEN [value |-> NoDict,
          log |-> <<MergeRecord("MISSING_DATE", plan_entry.period,
                                plan_entry.day_identifier, plan_entry.date)>>]
    ELSE ReadingsResult(FoundReadings(scraped_readings_[plan_entry.date].readings),
                        plan_entry)

\* lines 392-396: the psalms of one office, if the page holds them
PsalmList(raw_readings, key) ==
    IF Truthy(Get(raw_readings, key))
    THEN split_psalm_references(raw_readings[key])
    ELSE <<>>

\* lines 382-397
merge_psalms(scraped_readings_, date) ==
    IF date \notin DOMAIN scraped_readings_
    THEN [morning |-> <<>>, evening |-> <<>>]
    ELSE [morning |-> PsalmList(scraped_readings_[date].readings, "Morning"),
          evening |-> PsalmList(scraped_readings_[date].readings, "Evening")]

\* a page of scraped readings as scrape_date returns it (scraper.py lines
\* 140-167 and 188-193): the five reading names, each with a trimmed
\* reference or None
Page(morning, first, second, gospel, evening) ==
    [readings |-> ("Morning" :> morning @@ "First Reading" :> first @@
                   "Second Reading" :> second @@ "Gospel" :> gospel @@
                   "Evening" :> evening)]

PageFull ==
    Page(<<"P","s","a","l","m"," ","2","4",";"," ","1","5","0">>,
         <<"J","o","b"," ","1",":","1">>,
         <<"A","c","t","s"," ","1",":","2",","," ","n","o","t","e">>,
         <<"J","o","h","n"," ","9",":","1",","," ","3","5","-","3","8">>,
         <<"P","s","a","l","m"," ","2","5">>)

PagePartial ==
    Page(None,
         <<"K","i","n","g","s"," ","3",":","5">>,
         None,
         <<"J","o","h","n"," ","9",":","1",";"," ","1","3",":","3">>,
         <<"P","s","a","l","m"," ","1","1","0">>)

PageNoPsalms == Page(None, <<"J","o","b"," ","1",":","1">>, None, None, None)

PageEmpty == Page(None, None, None, None, None)

\* the completed maps of the model: every date scraped, a date missing and
\* a page without readings, nothing scraped, a page without psalms
ScrapedTables == {
    ("2027-03-21" :> PageFull @@ "2025-02-09" :> PageFull @@
     "2025-02-16" :> PagePartial @@ "2026-03-29" :> PageFull @@
     "2026-02-08" :> PagePartial),
    ("2025-02-09" :> PageEmpty @@ "2025-02-16" :> PageFull @@
     "2026-03-29" :> PagePartial @@ "2026-02-08" :> PageFull),
    <<>>,
    ("2027-03-21" :> PageNoPsalms @@ "2026-03-29" :> PageFull) }

\* an entry of a plan list (calculate_dates_v4.py lines 150-156)
PlanEntry(period, day_identifier, special_name, date) ==
    [period |-> period, day_identifier |-> day_identifier,
     special_name |-> special_name, date |-> date]

HOLY_WEEK == <<"H","o","l","y"," ","W","e","e","k">>

DATED_WEEK == <<"W","e","e","k"," ","f","o","l","l","o","w","i","n","g"," ","S","u","n","."," ","b","e","t","w","e","e","n"," ","F","e","b","."," ","4"," ","a","n","d"," ","1","0">>

SUNDAY == <<"S","u","n","d","a","y">>

\* entries of year_1_dates: Palm Sunday of 2027, and two Sundays that
\* generate_dated_week_dates gives the dated week of 2025
Year1Entries == {
    PlanEntry(HOLY_WEEK, SUNDAY, <<"P","a","l","m"," ","S","u","n","d","a","y">>, "2027-03-21"),
    PlanEntry(DATED_WEEK, SUNDAY, None, "2025-02-09"),
    PlanEntry(DATED_WEEK, SUNDAY, None, "2025-02-16") }

\* entries of year_2_dates: Palm Sunday and the dated week of 2026
Year2Entries == {
    PlanEntry(HOLY_WEEK, SUNDAY, <<"P","a","l","m"," ","S","u","n","d","a","y">>, "2026-03-29"),
    PlanEntry(DATED_WEEK, SUNDAY, None, "2026-02-08") }

\* most entries of a plan list
MaxEntries == 2

\* the sequences over S of length at most n
SeqsUpTo(S, n) == UNION {[1..k -> S] : k \in 0..n}

\* the plans of the model
Plans ==
    {[year_1_dates |-> y1, year_2_dates |-> y2] :
        y1 \in SeqsUpTo(Year1Entries, MaxEntries),
        y2 \in SeqsUpTo(Year2Entries, MaxEntries)}

\* ------------------------------------------------------------------------
\* One merge_lectionary call, one loop iteration per step
\* ------------------------------------------------------------------------

\* lines 422-432 and 445-455: the data of a position met for the first time
NewPosition(entry, psalms, year_1_date, year_2_date) ==
    [period |-> entry.period,
     day_identifier |-> entry.day_identifier,
     special_name |-> entry.special_name,
     period_type |-> infer_period_type(entry.period, entry.day_identifier),
     psalms |-> psalms,
     year_1 |-> NoDict,
     year_2 |-> NoDict,
     year_1_date |-> year_1_date,
     year_2_date |-> year_2_date]

\* lines 476-477: the data without its debugging fields
WithoutDates(data) ==
    [period |-> data.period,
     day_identifier |-> data.day_identifier,
     special_name |-> data.special_name,
     period_type |-> data.period_type,
     psalms |-> data.psalms,
     year_1 |-> data.year_1,
     year_2 |-> data.year_2]

\* year_1_complete without the positions that miss both years
MetadataBothForgotten(daily, missing_1, missing_2, both) ==
    [source |-> "PCUSA Daily Devotion (pcusa.org)",
     schema_version |-> "1.0",
     total_positions |-> Len(daily),
     year_1_complete |-> Len(daily) - missing_1,
     year_2_complete |-> Len(daily) - missing_2]

\* lines 506-513: the metadata but for generated_at, the time of the call
Metadata(daily, missing_1, missing_2, both) ==
    [source |-> "PCUSA Daily Devotion (pcusa.org)",
     schema_version |-> "1.0",
     total_positions |-> Len(daily),
     year_1_complete |-> Len(daily) - missing_1 - both,
     year_2_complete |-> Len(daily) - missing_2 - both]

MergeInit ==
    /\ plan \in Plans
    /\ scraped_readings \in ScrapedTables
    /\ merge_pc = "year_1"
    /\ entry_index = 1
    /\ positions = <<>>
    /\ position_keys = <<>>
    /\ daily_lectionary = <<>>
    /\ missing_year_1 = 0
    /\ missing_year_2 = 0
    /\ missing_both = 0
    /\ merge_log = <<>>
    /\ output = NoDict
    /\ SplitIdle
    /\ SessionIdle
    /\ PsalmIdle
    /\ PoolIdle
    /\ ScraperIdle
    /\ DatesIdle

\* lines 422-432 and 445-455: positions once the key has its entry
Held(pos_key, fresh) ==
    IF pos_key \in DOMAIN positions THEN positions ELSE positions @@ (pos_key :> fresh)

\* lines 435-438: the Year 1 readings added
WithYear1(held, pos_key, merged, entry) ==
    IF merged.value # NoDict
    THEN [held EXCEPT ![pos_key].year_1 = merged.value,
                      ![pos_key].year_1_date = entry.date]
    ELSE held

\* lines 458-461: the Year 2 readings added
WithYear2(held, pos_key, merged, entry) ==
    IF merged.value # NoDict
    THEN [held EXCEPT ![pos_key].year_2 = merged.value,
                      ![pos_key].year_2_date = entry.date]
    ELSE held

\* lines 464-465: psalms from Year 2 when the position has none
WithPsalmsIfNone(read, pos_key, entry) ==
    IF read[pos_key].psalms.morning = <<>> /\ read[pos_key].psalms.evening = <<>>
    THEN [read EXCEPT ![pos_key].psalms = merge_psalms(scraped_readings, entry.date)]
    ELSE read

\* lines 419-438: one iteration of the loop over year_1_dates, or its end
Year1Entry ==
    /\ merge_pc = "year_1"
    /\ IF entry_index <= Len(plan.year_1_dates)
       THEN LET entry   == plan.year_1_dates[entry_index]
                pos_key == create_position_key(entry.period, entry.day_identifier)
                known   == pos_key \in DOMAIN positions
            IN  /\ \E merged \in {merge_readings(entry, scraped_readings, 1)} :
                       /\ positions' =
                              WithYear1(
                                  Held(pos_key,
                                       NewPosition(entry,
                                           merge_psalms(scraped_readings, entry.date),
                                           entry.date, None)),
                                  pos_key, merged, entry)
                       /\ merge_log' = merge_log \o merged.log
                /\ position_keys' =
                       IF known THEN position_keys ELSE Append(position_keys, pos_key)
                /\ entry_index' = entry_index + 1
                /\ UNCHANGED merge_pc
       ELSE /\ merge_pc' = "year_2"
            /\ entry_index' = 1
            /\ UNCHANGED <<positions, position_keys, merge_log>>
    /\ UNCHANGED <<plan, scraped_readings, daily_lectionary, missing_year_1,
                   missing_year_2, missing_both, output>>
    /\ UNCHANGED <<splitVars, sessionVars, psalmVars, poolVars,
                 scraperVars, datesVars>>

\* lines 442-466: one iteration of the loop over year_2_dates, or its end
Year2Entry ==
    /\ merge_pc = "year_2"
    /\ IF entry_index <= Len(plan.year_2_dates)
       THEN LET entry   == plan.year_2_dates[entry_index]
                pos_key == create_position_key(entry.period, entry.day_identifier)
                known   == pos_key \in DOMAIN positions
            IN  /\ \E merged \in {merge_readings(entry, scraped_readings, 2)} :
                       /\ positions' =
                              WithPsalmsIfNone(
                                  WithYear2(
                                      Held(pos_key,
                                           NewPosition(entry,
                                               [morning |-> <<>>, evening |-> <<>>],
                                               None, entry.date)),
                                      pos_key, merged, entry),
                                  pos_key, entry)
                       /\ merge_log' = merge_log \o merged.log
                /\ position_keys' =
                       IF known THEN position_keys ELSE Append(position_keys, pos_key)
                /\ entry_index' = entry_index + 1
                /\ UNCHANGED merge_pc
       ELSE /\ merge_pc' = "validate"
            /\ entry_index' = 1
            /\ UNCHANGED <<positions, position_keys, merge_log>>
    /\ UNCHANGED <<plan, scraped_readings, daily_lectionary, missing_year_1,
                   missing_year_2, missing_both, output>>
    /\ UNCHANGED <<splitVars, sessionVars, psalmVars, poolVars,
                 scraperVars, datesVars>>

\* lines 475-497: one iteration of the loop over positions.items(), or its
\* end
ValidatePosition ==
    /\ merge_pc = "validate"
    /\ IF entry_index <= Len(position_keys)
       THEN LET pos_key == position_keys[entry_index]
                data    == positions[pos_key]
                both    == data.year_1 = NoDict /\ data.year_2 = NoDict
                only_1  == ~both /\ data.year_1 = NoDict
                only_2  == ~both /\ ~only_1 /\ data.year_2 = NoDict
            IN  /\ missing_both' = IF both THEN missing_both + 1 ELSE missing_both
                /\ missing_year_1' = IF only_1 THEN missing_year_1 + 1 ELSE missing_year_1
                /\ missing_year_2' = IF only_2 THEN missing_year_2 + 1 ELSE missing_year_2
                /\ merge_log' =
                       IF both
                       THEN Append(merge_log,
                                MergeRecord("MISSING_BOTH_YEARS", data.period,
                                            data.day_identifier, None))
                       ELSE IF only_1
                       THEN Append(merge_log,
                                MergeRecord("MISSING_YEAR_1", data.period,
                                            data.day_identifier, data.year_2_date))
                       ELSE IF only_2
                       THEN Append(merge_log,
                                MergeRecord("MISSING_YEAR_2", data.period,
                                            data.day_identifier, data.year_1_date))
                       ELSE merge_log
                /\ positions' = [positions EXCEPT ![pos_key] = WithoutDates(data)]
                /\ daily_lectionary' = Append(daily_lectionary, WithoutDates(data))
                /\ entry_index' = entry_index + 1
                /\ UNCHANGED merge_pc
       ELSE /\ merge_pc' = "return"
            /\ UNCHANGED <<entry_index, positions, daily_lectionary,
                           missing_year_1, missing_year_2, missing_both, merge_log>>
    /\ UNCHANGED <<plan, scraped_readings, position_keys, output>>
    /\ UNCHANGED <<splitVars, sessionVars, psalmVars, poolVars,
                 scraperVars, datesVars>>

\* lines 505-516
MergeReturn ==
    /\ merge_pc = "return"
    /\ output' = [metadata |-> Metadata(daily_lectionary, missing_year_1,
                                        missing_year_2, missing_both),
                  daily_lectionary |-> daily_lectionary]
    /\ merge_pc' = "done"
    /\ UNCHANGED <<plan, scraped_readings, entry_index, positions, position_keys,
                   daily_lectionary, missing_year_1, missing_year_2,
                   missing_both, merge_log>>
    /\ UNCHANGED <<splitVars, sessionVars, psalmVars, poolVars,
                 scraperVars, datesVars>>

MergeNext == Year1Entry \/ Year2Entry \/ ValidatePosition \/ MergeReturn

MergeSpec == MergeInit /\ [][MergeNext]_vars

\* ------------------------------------------------------------------------
\* The scraper: run_scraper over the progress file
\* ------------------------------------------------------------------------

\* the dates a range can hold, as day numbers
NumDates == 2

Dates == 1..NumDates

\* most run_scraper calls
MaxRuns == 3

\* the state load_progress returns when there is no file; completed and
\* failed by their keys
EmptyProgress == [completed |-> {}, failed |-> {}, date_range |-> NoDict]

\* load_progress
load_progress(file) == IF file = NoFile THEN EmptyProgress ELSE file

\* the file left as it was
save_progress_skipped(file, progress_) == file

\* save_progress: the file holds what json.dump wrote
save_progress(file, progress_) == progress_

\* generate_urls, each url by its date
generate_urls(start_date, end_date) ==
    IF start_date <= end_date
    THEN [k \in 1..(end_date - start_date + 1) |-> start_date + k - 1]
    ELSE <<>>

\* what show_status prints for the file
show_status(file) ==
    LET p == load_progress(file)
        completed == Cardinality(p.completed)
        failed == Cardinality(p.failed)
    IN  IF p.date_range # NoDict
        THEN LET total == (p.date_range.end - p.date_range.start) + 1
             IN  [total |-> total, completed |-> completed, failed |-> failed,
                  remaining |-> total - completed - failed]
        ELSE [completed |-> completed, failed |-> failed]

\* the other subsystems at rest
OutsideScraperIdle ==
    SplitIdle /\ SessionIdle /\ PsalmIdle /\ PoolIdle /\ MergeIdle /\ DatesIdle

outsideScraper ==
    <<splitVars, sessionVars, psalmVars, poolVars, mergeVars, datesVars>>

ScraperInit == ScraperIdle /\ OutsideScraperIdle

\* run_scraper up to the start of its loop (lines 200-238), or its return
\* when nothing remains
RunScraper ==
    /\ scraper_pc = "stopped" /\ runs < MaxRuns
    /\ \E start_date \in Dates, end_date \in Dates :
           LET urls == generate_urls(start_date, end_date)
               loaded == [load_progress(progress_file) EXCEPT
                             !.date_range = [start |-> start_date,
                                             end |-> end_date]]
               remaining == SelectSeq(urls, LAMBDA d : d \notin loaded.completed)
           IN  /\ progress' = loaded
               /\ remaining_urls' = remaining
               /\ IF remaining = <<>>
                  THEN scraper_pc' = "stopped" /\ url_index' = 0
                  ELSE scraper_pc' = "scrape" /\ url_index' = 1
    /\ runs' = runs + 1
    /\ UNCHANGED <<progress_file, fetched, refetched>>
    /\ UNCHANGED outsideScraper

\* lines 240-255: scrape_date returns a page or raises
ScrapeDate ==
    /\ scraper_pc = "scrape"
    /\ LET date == remaining_urls[url_index]
       IN  /\ \E ok \in BOOLEAN :
                  /\ progress' =
                         IF ok
                         THEN [progress EXCEPT !.completed = @ \cup {date}]
                         ELSE [progress EXCEPT !.failed = @ \cup {date}]
                  /\ fetched' = IF ok THEN fetched \cup {date} ELSE fetched
           /\ refetched' =
                  IF date \in load_progress(progress_file).completed
                  THEN refetched \cup {date}
                  ELSE refetched
    /\ scraper_pc' = "save"
    /\ UNCHANGED <<progress_file, remaining_urls, url_index, runs>>
    /\ UNCHANGED outsideScraper

\* line 258: save progress after each page
SaveAfterPage ==
    /\ scraper_pc = "save"
    /\ progress_file' = save_progress(progress_file, progress)
    /\ scraper_pc' = "sleep"
    /\ UNCHANGED <<progress, remaining_urls, url_index, runs, fetched, refetched>>
    /\ UNCHANGED outsideScraper

\* lines 261-262 and the next iteration, or the end of the loop
Sleep ==
    /\ scraper_pc = "sleep"
    /\ IF url_index < Len(remaining_urls)
       THEN url_index' = url_index + 1 /\ scraper_pc' = "scrape"
       ELSE url_index' = url_index /\ scraper_pc' = "stopped"
    /\ UNCHANGED <<progress_file, progress, remaining_urls, runs, fetched, refetched>>
    /\ UNCHANGED outsideScraper

\* lines 264-268: Ctrl+C anywhere in the loop
KeyboardInterrupt ==
    /\ scraper_pc \in {"scrape", "save", "sleep"}
    /\ progress_file' = save_progress(progress_file, progress)
    /\ scraper_pc' = "stopped"
    /\ UNCHANGED <<progress, remaining_urls, url_index, runs, fetched, refetched>>
    /\ UNCHANGED outsideScraper

ScraperNext ==
    RunScraper \/ ScrapeDate \/ SaveAfterPage \/ Sleep \/ KeyboardInterrupt

ScraperSpec == ScraperInit /\ [][ScraperNext]_vars

\* ------------------------------------------------------------------------
\* The date generator: the dated weeks of main
\* ------------------------------------------------------------------------

\* is_leap_year
is_leap_year(year) ==
    year % 4 = 0 /\ (year % 100 # 0 \/ year % 400 = 0)

\* the days of the months of a common year
DAYS_IN_MONTH == <<31, 28, 31, 30, 31, 30, 31, 31, 30, 31, 30, 31>>

\* the days of month of year
DaysInMonth(year, month) ==
    IF month = 2 /\ is_leap_year(year) THEN 29 ELSE DAYS_IN_MONTH[month]

\* the days of year before the first of month
RECURSIVE DaysBeforeMonth(_, _)
DaysBeforeMonth(year, month) ==
    IF month = 1 THEN 0
    ELSE DaysBeforeMonth(year, month - 1) + DaysInMonth(year, month - 1)

\* the days before January 1 of year, counted from 0001-01-01
DaysBeforeYear(year) ==
    LET y == year - 1
    IN  y * 365 + (y \div 4) - (y \div 100) + (y \div 400)

\* datetime(year, month, day) raises no ValueError
ValidDate(year, month, day) ==
    month \in 1..12 /\ day >= 1 /\ day <= DaysInMonth(year, month)

\* datetime(year, month, day), by its day number (toordinal)
Datetime(year, month, day) ==
    DaysBeforeYear(year) + DaysBeforeMonth(year, month) + day

\* datetime.weekday(): Monday is 0, Sunday is 6
Weekday(d) == (d + 6) % 7

DAY_NAMES == <<
    <<"M","o","n","d","a","y">>,
    <<"T","u","e","s","d","a","y">>,
    <<"W","e","d","n","e","s","d","a","y">>,
    <<"T","h","u","r","s","d","a","y">>,
    <<"F","r","i","d","a","y">>,
    <<"S","a","t","u","r","d","a","y">>,
    <<"S","u","n","d","a","y">> >>

\* day_name
day_name(d) == DAY_NAMES[Weekday(d) + 1]

\* parse_date of a calendar date
parse_date(t) == Datetime(t[1], t[2], t[3])

\* the loop of find_sunday_between from current to end
RECURSIVE FirstSunday(_, _)
FirstSunday(current_, end) ==
    IF current_ > end THEN NoDate
    ELSE IF Weekday(current_) = 6 THEN current_
    ELSE FirstSunday(current_ + 1, end)

\* find_sunday_between
find_sunday_between(year, start_month, start_day, end_month, end_day) ==
    LET end_day_ == IF end_month = 2 /\ end_day > 28 /\ ~is_leap_year(year)
                    THEN 28 ELSE end_day
    IN  IF start_month = 2 /\ start_day > 28 /\ ~is_leap_year(year)
        THEN NoDate
        ELSE IF ~ValidDate(year, start_month, start_day)
                \/ ~ValidDate(year, end_month, end_day_)
        THEN NoDate
        ELSE FirstSunday(Datetime(year, start_month, start_day),
                         Datetime(year, end_month, end_day_))

\* LITURGICAL_CALENDAR in the order of the dict, with the fields the dated
\* weeks read
LITURGICAL_CALENDAR == <<
    [year |-> 1993, cycle |-> 1, ash_wed |-> <<1993, 2, 24>>],
    [year |-> 1994, cycle |-> 2, ash_wed |-> <<1994, 2, 16>>],
    [year |-> 1995, cycle |-> 1, ash_wed |-> <<1995, 3, 1>>],
    [year |-> 1996, cycle |-> 2, ash_wed |-> <<1996, 2, 21>>],
    [year |-> 1997, cycle |-> 1, ash_wed |-> <<1997, 2, 12>>],
    [year |-> 1998, cycle |-> 2, ash_wed |-> <<1998, 2, 25>>],
    [year |-> 1999, cycle |-> 1, ash_wed |-> <<1999, 2, 17>>],
    [year |-> 2000, cycle |-> 2, ash_wed |-> <<2000, 3, 8>>],
    [year |-> 2001, cycle |-> 1, ash_wed |-> <<2001, 2, 28>>],
    [year |-> 2002, cycle |-> 2, ash_wed |-> <<2002, 2, 13>>],
    [year |-> 2003, cycle |-> 1, ash_wed |-> <<2003, 3, 5>>],
    [year |-> 2004, cycle |-> 2, ash_wed |-> <<2004, 2, 25>>],
    [year |-> 2005, cycle |-> 1, ash_wed |-> <<2005, 2, 9>>],
    [year |-> 2006, cycle |-> 2, ash_wed |-> <<2006, 3, 1>>],
    [year |-> 2007, cycle |-> 1, ash_wed |-> <<2007, 2, 21>>],
    [year |-> 2008, cycle |-> 2, ash_wed |-> <<2008, 2, 6>>],
    [year |-> 2009, cycle |-> 1, ash_wed |-> <<2009, 2, 25>>],
    [year |-> 2010, cycle |-> 2, ash_wed |-> <<2010, 2, 17>>],
    [year |-> 2011, cycle |-> 1, ash_wed |-> <<2011, 3, 9>>],
    [year |-> 2012, cycle |-> 2, ash_wed |-> <<2012, 2, 22>>],
    [year |-> 2013, cycle |-> 1, ash_wed |-> <<2013, 2, 13>>],
    [year |-> 2014, cycle |-> 2, ash_wed |-> <<2014, 3, 5>>],
    [year |-> 2015, cycle |-> 1, ash_wed |-> <<2015, 2, 18>>],
    [year |-> 2016, cycle |-> 2, ash_wed |-> <<2016, 2, 10>>],
    [year |-> 2017, cycle |-> 1, ash_wed |-> <<2017, 3, 1>>],
    [year |-> 2018, cycle |-> 2, ash_wed |-> <<2018, 2, 14>>],
    [year |-> 2019, cycle |-> 1, ash_wed |-> <<2019, 3, 6>>],
    [year |-> 2020, cycle |-> 2, ash_wed |-> <<2020, 2, 26>>],
    [year |-> 2021, cycle |-> 1, ash_wed |-> <<2021, 2, 17>>],
    [year |-> 2022, cycle |-> 2, ash_wed |-> <<2022, 3, 2>>],
    [year |-> 2023, cycle |-> 1, ash_wed |-> <<2023, 2, 22>>],
    [year |-> 2024, cycle |-> 2, ash_wed |-> <<2024, 2, 14>>],
    [year |-> 2025, cycle |-> 1, ash_wed |-> <<2025, 3, 5>>],
    [year |-> 2026, cycle |-> 2, ash_wed |-> <<2026, 2, 18>>],
    [year |-> 2027, cycle |-> 1, ash_wed |-> <<2027, 2, 10>>],
    [year |-> 2028, cycle |-> 2, ash_wed |-> <<2028, 3, 1>>],
    [year |-> 2029, cycle |-> 1, ash_wed |-> <<2029, 2, 14>>],
    [year |-> 2030, cycle |-> 2, ash_wed |-> <<2030, 3, 6>>],
    [year |-> 2031, cycle |-> 1, ash_wed |-> <<2031, 2, 26>>],
    [year |-> 2032, cycle |-> 2, ash_wed |-> <<2032, 2, 11>>],
    [year |-> 2033, cycle |-> 1, ash_wed |-> <<2033, 3, 2>>],
    [year |-> 2034, cycle |-> 2, ash_wed |-> <<2034, 2, 22>>],
    [year |-> 2035, cycle |-> 1, ash_wed |-> <<2035, 2, 7>>],
    [year |-> 2036, cycle |-> 2, ash_wed |-> <<2036, 2, 27>>],
    [year |-> 2037, cycle |-> 1, ash_wed |-> <<2037, 2, 18>>],
    [year |-> 2038, cycle |-> 2, ash_wed |-> <<2038, 3, 10>>],
    [year |-> 2039, cycle |-> 1, ash_wed |-> <<2039, 2, 23>>],
    [year |-> 2040, cycle |-> 2, ash_wed |-> <<2040, 2, 15>>] >>

\* LITURGICAL_CALENDAR[year]
CalendarOf(year) ==
    LITURGICAL_CALENDAR[CHOOSE k \in 1..Len(LITURGICAL_CALENDAR) :
                            LITURGICAL_CALENDAR[k].year = year]

DATED_WEEK_11_17 == <<"W","e","e","k"," ","f","o","l","l","o","w","i","n","g"," ","S","u","n","."," ","b","e","t","w","e","e","n"," ","F","e","b","."," ","1","1"," ","a","n","d"," ","1","7">>

DATED_WEEK_18_24 == <<"W","e","e","k"," ","f","o","l","l","o","w","i","n","g"," ","S","u","n","."," ","b","e","t","w","e","e","n"," ","F","e","b","."," ","1","8"," ","a","n","d"," ","2","4">>

DATED_WEEK_25_29 == <<"W","e","e","k"," ","f","o","l","l","o","w","i","n","g"," ","S","u","n","."," ","b","e","t","w","e","e","n"," ","F","e","b","."," ","2","5"," ","a","n","d"," ","2","9">>

DATED_WEEK_RANGES == <<
    [start_m |-> 2, start_d |-> 4, end_m |-> 2, end_d |-> 10, period_name |-> DATED_WEEK],
    [start_m |-> 2, start_d |-> 11, end_m |-> 2, end_d |-> 17, period_name |-> DATED_WEEK_11_17],
    [start_m |-> 2, start_d |-> 18, end_m |-> 2, end_d |-> 24, period_name |-> DATED_WEEK_18_24],
    [start_m |-> 2, start_d |-> 25, end_m |-> 2, end_d |-> 29, period_name |-> DATED_WEEK_25_29] >>

\* sunday and sunday < ash_wed
SundayBeforeAshWednesday(year, range) ==
    LET sunday == find_sunday_between(year, range.start_m, range.start_d,
                                      range.end_m, range.end_d)
    IN  sunday # NoDate /\ sunday < parse_date(CalendarOf(year).ash_wed)

\* find_years_with_dated_week
find_years_with_dated_week(range, target_cycle) ==
    LET found == SelectSeq(LITURGICAL_CALENDAR,
                     LAMBDA data : /\ data.cycle = target_cycle
                                   /\ SundayBeforeAshWednesday(data.year, range))
    IN  [k \in 1..Len(found) |-> found[k].year]

\* lines 432-438: the source year of a dated week for a cycle
ChooseSourceYear(years) ==
    LET preferred == SelectSeq(years, LAMBDA y : y >= 2025)
    IN  IF preferred # <<>> THEN preferred[1]
        ELSE IF years # <<>> THEN years[Len(years)]
        ELSE NoYear

\* one entry of generate_dated_week_dates; the date by its day number
DatedWeekEntry(period_name, current_, year) ==
    [period |-> period_name, day_identifier |-> day_name(current_),
     special_name |-> None, date |-> current_, source_year |-> year]

\* e put behind the entries of a date-sorted list that are not later
RECURSIVE InsertByDate(_, _)
InsertByDate(sorted, e) ==
    IF sorted = <<>> \/ sorted[Len(sorted)].date <= e.date
    THEN Append(sorted, e)
    ELSE Append(InsertByDate(SubSeq(sorted, 1, Len(sorted) - 1), e),
                sorted[Len(sorted)])

\* list.sort(key=lambda x: x['date']), a stable sort
RECURSIVE SortByDate(_)
SortByDate(list) ==
    IF list = <<>> THEN <<>>
    ELSE InsertByDate(SortByDate(SubSeq(list, 1, Len(list) - 1)), list[Len(list)])

\* the other subsystems at rest
OutsideDatesIdle ==
    SplitIdle /\ SessionIdle /\ PsalmIdle /\ PoolIdle /\ MergeIdle /\ ScraperIdle

outsideDates ==
    <<splitVars, sessionVars, psalmVars, poolVars, mergeVars, scraperVars>>

\* main at line 425
DatesInit ==
    /\ cycle = 1 /\ range_index = 1 /\ gen_pc = "sources"
    /\ source_year = NoYear /\ current = NoDate /\ dates = <<>>
    /\ dated_week_sources = [c \in {1, 2} |-> <<>>]
    /\ year_dates = [c \in {1, 2} |-> <<>>]
    /\ OutsideDatesIdle

\* lines 427-438: one iteration of the loop that fills dated_week_sources
FindSource ==
    /\ gen_pc = "sources"
    /\ LET years == find_years_with_dated_week(DATED_WEEK_RANGES[range_index], cycle)
       IN  dated_week_sources' =
               [dated_week_sources EXCEPT ![cycle] = Append(@, ChooseSourceYear(years))]
    /\ IF cycle = 1
       THEN cycle' = 2 /\ range_index' = range_index /\ gen_pc' = "sources"
       ELSE IF range_index < Len(DATED_WEEK_RANGES)
       THEN cycle' = 1 /\ range_index' = range_index + 1 /\ gen_pc' = "sources"
       ELSE cycle' = 1 /\ range_index' = 1 /\ gen_pc' = "range"
    /\ UNCHANGED <<source_year, current, dates, year_dates>>
    /\ UNCHANGED outsideDates

\* lines 458-470 and 136-146: main looks up the source year and calls
\* generate_dated_week_dates, which returns at once without a Sunday before
\* Ash Wednesday
DatedWeekCall ==
    /\ gen_pc = "range"
    /\ LET range == DATED_WEEK_RANGES[range_index]
           year == dated_week_sources[cycle][range_index]
       IN  /\ source_year' = year
           /\ dates' = <<>>
           /\ IF year # NoYear /\ SundayBeforeAshWednesday(year, range)
              THEN /\ current' = find_sunday_between(year, range.start_m,
                                      range.start_d, range.end_m, range.end_d)
                   /\ gen_pc' = "loop"
                   /\ UNCHANGED <<cycle, range_index>>
              ELSE /\ current' = NoDate
                   /\ IF cycle = 1
                      THEN cycle' = 2 /\ range_index' = range_index /\ gen_pc' = "range"
                      ELSE IF range_index < Len(DATED_WEEK_RANGES)
                      THEN cycle' = 1 /\ range_index' = range_index + 1 /\ gen_pc' = "range"
                      ELSE cycle' = 1 /\ range_index' = 1 /\ gen_pc' = "sort"
    /\ UNCHANGED <<dated_week_sources, year_dates>>
    /\ UNCHANGED outsideDates

\* lines 149-157: one iteration of the while loop
DatedWeekAppend ==
    /\ gen_pc = "loop"
    /\ current < parse_date(CalendarOf(source_year).ash_wed)
    /\ dates' = Append(dates,
           DatedWeekEntry(DATED_WEEK_RANGES[range_index].period_name,
                          current, source_year))
    /\ current' = current + 1
    /\ UNCHANGED <<cycle, range_index, gen_pc, source_year,
                   dated_week_sources, year_dates>>
    /\ UNCHANGED outsideDates

\* line 159 and the extend of main
DatedWeekReturn ==
    /\ gen_pc = "loop"
    /\ ~(current < parse_date(CalendarOf(source_year).ash_wed))
    /\ year_dates' = [year_dates EXCEPT ![cycle] = @ \o dates]
    /\ IF cycle = 1
       THEN cycle' = 2 /\ range_index' = range_index /\ gen_pc' = "range"
       ELSE IF range_index < Len(DATED_WEEK_RANGES)
       THEN cycle' = 1 /\ range_index' = range_index + 1 /\ gen_pc' = "range"
       ELSE cycle' = 1 /\ range_index' = 1 /\ gen_pc' = "sort"
    /\ UNCHANGED <<source_year, current, dates, dated_week_sources>>
    /\ UNCHANGED outsideDates

\* lines 473-474: the two sorts
SortDates ==
    /\ gen_pc = "sort"
    /\ year_dates' = [year_dates EXCEPT ![cycle] = SortByDate(@)]
    /\ IF cycle = 1
       THEN cycle' = 2 /\ gen_pc' = "sort"
       ELSE cycle' = 2 /\ gen_pc' = "done"
    /\ UNCHANGED <<range_index, source_year, current, dates, dated_week_sources>>
    /\ UNCHANGED outsideDates

DatesNext ==
    FindSource \/ DatedWeekCall \/ DatedWeekAppend \/ DatedWeekReturn \/ SortDates

DatesSpec == DatesInit /\ [][DatesNext]_vars

\* ------------------------------------------------------------------------
\* Properties of a split_references call
\* ------------------------------------------------------------------------

\* the call has returned for a citation that is non-empty after trimming
Returned == pc = "done" /\ ~IsBlank(raw)

\* the non-empty trimmed comma sub-parts of the semicolon segments of the
\* typo-corrected citation, in source order
SubParts(text_) ==
    LET sp == SemiParts(text_)
    IN  SelectSeq(Flatten([k \in 1..Len(sp) |-> CommaParts(sp[k])]),
                  LAMBDA p : p # <<>>)

\* the categories of the edge-case records of the call
Categories == {edge_cases[k].category : k \in 1..Len(edge_cases)}

\* s holds no digit
NoDigit(s) == \A k \in 1..Len(s) : s[k] \notin Digit

\* a name of the registry occurs in s, letter case ignored
ContainsBookName(s) ==
    \E k \in 1..Len(BOOK_PATTERN_NAMES) :
        \E at \in 1..Len(s) : OccursAtIgnoreCase(s, at, BOOK_PATTERN_NAMES[k])

\* s opens with a name of the registry, letter case ignored
BeginsWithBookName(s) ==
    \E k \in 1..Len(BOOK_PATTERN_NAMES) : OccursAtIgnoreCase(s, 1, BOOK_PATTERN_NAMES[k])

\* C1: for every raw citation whose trimmed form is non-empty, and every
\* reading_type, the returned sequence holds at least one reference.
C1_NonEmptyOnNonEmptyInput == Returned => Len(results) >= 1

\* C1 witness: a citation of delimiters only has returned its single
\* fallback reference.
C1_Witness == Returned /\ semi_parts = <<>> /\ results = <<text>>

\* C2: semicolons always delimit distinct references: when every semicolon
\* segment holds a non-empty sub-part, every segment yields a reference of its
\* own, no reference holds text of two segments, and there are at least as
\* many references as segments.
C2_SemicolonsDelimit ==
    (/\ Returned
     /\ semi_parts # <<>>
     /\ \A k \in 1..Len(semi_parts) : SubParts(semi_parts[k]) # <<>>) =>
        /\ \A k \in 1..Len(semi_parts) :
               \E j \in 1..Len(results) : result_segments[j] = {k}
        /\ \A j \in 1..Len(results) : Cardinality(result_segments[j]) <= 1
        /\ Len(results) >= Len(semi_parts)

\* C3: immediately after a sub-part that passes the book-start test is
\* processed, current_book is set and is the book name the sub-part begins
\* with.
C3_BookStartSetsActiveBook ==
    [][(pc = "walk" /\ starts_with_book_name(comma_parts[i])) =>
           (Truthy(current_book') /\ StartsWith(Strip(comma_parts[i]), current_book'))]_vars

\* the comma parts of the segments after position k
RECURSIVE PartsAfter(_)
PartsAfter(k) ==
    IF k >= Len(semi_parts)
    THEN 0
    ELSE Len(CommaParts(semi_parts[k + 1])) + PartsAfter(k + 1)

\* a bound on the steps the call has left
StepsLeft ==
    CASE pc = "call"     -> Len(raw) + 5
      [] pc = "walk"     -> (Len(comma_parts) - i) + PartsAfter(semi_index) + 2
      [] pc = "validate" -> 1
      [] OTHER           -> 0

\* C4: split_references never raises and terminates: at every point of the
\* call no exception has been raised, the call is at a step it can take (the
\* loop indices are within range) until it has returned, the steps taken and
\* the steps left stay within a bound fixed by the input, and what is returned
\* is a list of strings.
C4_NeverRaises ==
    /\ exception = NoException
    /\ pc \in {"call", "walk", "validate", "done"}
    /\ pc = "walk" => (/\ semi_index \in 1..Len(semi_parts)
                       /\ i \in 1..Len(comma_parts))
    /\ steps + StepsLeft <= Len(raw) + 5
    /\ pc = "done" => \A k \in 1..Len(results) : results[k] # None

\* C4 witness: a call on malformed text has returned after both an ambiguous
\* comma part and a part without book context.
C4_Witness ==
    pc = "done" /\ {"COMMA_SPLIT_AMBIGUOUS", "NO_BOOK_CONTEXT"} \subseteq Categories

\* C5 as stated: a non-empty raw citation with no digit and no recognized
\* book name is returned as the single reference (verbatim, that is as it
\* stands after trimming and typo correction), with exactly one edge-case
\* record.
C5_UnparseableVerbatim ==
    (Returned /\ NoDigit(raw) /\ ~ContainsBookName(raw)) =>
        (results = <<Prepared(raw)>> /\ Len(edge_cases) = 1)

\* C5 amended: a raw citation whose trimmed form is non-empty and holds no
\* digit, no ',' and no ';', and which after typo correction holds no
\* recognized book name, is returned trimmed as the single reference, with
\* exactly one edge-case record.
C5_UnparseableSinglePart ==
    (/\ Returned
     /\ NoDigit(raw)
     /\ \A k \in 1..Len(raw) : raw[k] \notin {",", ";"}
     /\ ~ContainsBookName(Prepared(raw))) =>
        (results = <<Strip(raw)>> /\ Len(edge_cases) = 1)

\* C5 witness: such a citation, with surrounding whitespace, has been
\* returned trimmed with one record.
C5_Witness ==
    /\ Returned
    /\ NoDigit(raw)
    /\ \A k \in 1..Len(raw) : raw[k] \notin {",", ";"}
    /\ ~ContainsBookName(Prepared(raw))
    /\ raw # Strip(raw)
    /\ results = <<Strip(raw)>>
    /\ Len(edge_cases) = 1

\* C6: extract_book_name returns a book name exactly when
\* starts_with_book_name is true, for every sub-part the call classifies.
C6_ExtractMatchesSameTexts ==
    pc = "walk" =>
        ((extract_book_name(comma_parts[i]) # None) <=>
             starts_with_book_name(comma_parts[i]))

\* C7: changing only the letter case of the book names of a citation changes
\* neither which sub-parts are book starts nor the book carried forward to
\* later sub-parts: the references returned differ in letter case only.
C7_CaseInsensitive ==
    (Returned /\ Prepared(raw) = Strip(raw)) =>
        [k \in 1..Len(results) |-> LowerStr(results[k])] =
            split_references(LowerStr(raw), reading_type).results

\* the sub-parts ps can be carried, in order, by references j >= from
RECURSIVE CarriedInOrder(_, _)
CarriedInOrder(ps, from) ==
    \/ ps = <<>>
    \/ /\ \E j \in from..Len(results) : Contains(results[j], Head(ps))
       /\ CarriedInOrder(Tail(ps),
              CHOOSE j \in from..Len(results) :
                  /\ Contains(results[j], Head(ps))
                  /\ \A l \in from..(j - 1) : ~Contains(results[l], Head(ps)))

\* C8: output order mirrors input order: the sub-parts of the citation are
\* carried by references in non-decreasing position.
C8_OrderMirrorsInput == Returned => CarriedInOrder(SubParts(text), 1)

\* C8 witness: three sub-parts have been returned as three different
\* references.
C8_Witness ==
    /\ Returned
    /\ Len(SubParts(text)) = 3
    /\ Len(results) = 3
    /\ Cardinality({results[k] : k \in 1..3}) = 3

\* C9: data is never dropped: every non-empty trimmed sub-part appears
\* verbatim in some returned reference.
C9_NoSubPartDropped ==
    Returned =>
        \A k \in 1..Len(SubParts(text)) :
            \E j \in 1..Len(results) : Contains(results[j], SubParts(text)[k])

\* C9 witness: a call has returned a continuation appended in place and an
\* ambiguous part emitted under the current book.
C9_Witness ==
    /\ Returned
    /\ Len(SubParts(text)) = 3
    /\ Len(results) = 2
    /\ "COMMA_SPLIT_AMBIGUOUS" \in Categories

\* C10: when the call emitted no edge-case record every returned reference
\* starts with a book name and its locator, and a reference that does not open
\* with a book name is returned only with a NO_BOOK_CONTEXT or EMPTY_RESULT
\* record for it.
C10_QualifiedUnlessFlagged ==
    Returned =>
        /\ edge_cases = <<>> =>
               \A j \in 1..Len(results) : starts_with_book_name(results[j])
        /\ \A j \in 1..Len(results) :
               ~BeginsWithBookName(results[j]) =>
                   \E k \in 1..Len(edge_cases) :
                       \/ /\ edge_cases[k].category = "NO_BOOK_CONTEXT"
                          /\ edge_cases[k].fragment = results[j]
                       \/ /\ edge_cases[k].category = "EMPTY_RESULT"
                          /\ edge_cases[k].raw = results[j]

\* C10 witness: a call without edge-case records has returned a chapter:verse
\* part of a later segment under the carried book name.
C10_Witness ==
    /\ Returned
    /\ edge_cases = <<>>
    /\ Len(semi_parts) >= 2
    /\ \E j \in 2..Len(results) : results[j] = Qualify(current_book, PART_CHAPTER)

\* the latest step was an iteration of the loop over comma_parts that met a
\* non-empty sub-part and did not raise; previous holds what it found
Stepped == previous.walked /\ pc \in {"walk", "validate"} /\ previous.part # <<>>

\* the records the latest iteration added
NewRecords == SubSeq(edge_cases, Len(previous.edge_cases) + 1, Len(edge_cases))

\* the latest iteration left the earlier references and records as they were
\* and added the reference ref
EmittedAsNew(ref) ==
    /\ results = Append(previous.results, ref)
    /\ SubSeq(edge_cases, 1, Len(previous.edge_cases)) = previous.edge_cases

\* the latest iteration added exactly one record, of the given category, for
\* the sub-part it met
OneRecord(category) ==
    /\ Len(NewRecords) = 1
    /\ NewRecords[1].category = category
    /\ NewRecords[1].fragment = previous.part

\* C11: a sub-part that matches a book start begins a new reference that is
\* the sub-part verbatim: it is not appended to the previous reference, not
\* prefixed with the book current before it, and no record is emitted for it.
C11_BookStartBeginsReference ==
    (Stepped /\ starts_with_book_name(previous.part))
        => EmittedAsNew(previous.part) /\ NewRecords = <<>>

\* a book start met after a comma while another book is current
C11_Witness ==
    /\ Stepped /\ starts_with_book_name(previous.part)
    /\ Truthy(previous.current_book) /\ previous.i > 1
    /\ results = Append(previous.results, previous.part)

\* C12 as stated: with a current book, every sub-part of verse-locator shape
\* that contains ':' becomes the new reference "{current_book} {sub-part}".
C12_ColonPartQualified ==
    (Stepped /\ Truthy(previous.current_book)
        /\ VersePattern(previous.part) /\ HasColon(previous.part))
        => EmittedAsNew(Qualify(previous.current_book, previous.part))
            /\ NewRecords = <<>>

\* C12: with a current book, a sub-part that does not match a book start, has
\* verse-locator shape and contains ':' becomes the new reference
\* "{current_book} {sub-part}": one more reference, the earlier ones
\* unchanged, no record; so too for the first sub-part after a semicolon.
C12_ColonPartQualifiedUnlessBookStart ==
    (Stepped /\ Truthy(previous.current_book)
        /\ ~starts_with_book_name(previous.part)
        /\ VersePattern(previous.part) /\ HasColon(previous.part))
        => EmittedAsNew(Qualify(previous.current_book, previous.part))
            /\ NewRecords = <<>>

\* a chapter:verse sub-part that opens a later semicolon segment
C12_Witness ==
    /\ Stepped /\ Truthy(previous.current_book)
    /\ ~starts_with_book_name(previous.part)
    /\ VersePattern(previous.part) /\ HasColon(previous.part)
    /\ previous.semi_index > 1 /\ previous.i = 1
    /\ Len(results) = Len(previous.results) + 1

\* the latest iteration appended ", {sub-part}" to the last reference in place
ContinuedLast ==
    /\ previous.results # <<>>
    /\ results = [previous.results EXCEPT ![Len(previous.results)] =
                      @ \o <<",", " ">> \o previous.part]
    /\ edge_cases = previous.edge_cases

\* C13 as stated: with a current book, every sub-part of verse-locator shape
\* without ':' is appended as ", {sub-part}" to the latest reference.
C13_ColonlessPartContinues ==
    (Stepped /\ Truthy(previous.current_book)
        /\ VersePattern(previous.part) /\ ~HasColon(previous.part))
        => ContinuedLast

\* C13: with a current book, a sub-part that does not match a book start, has
\* verse-locator shape and contains no ':' is a continuation: ", {sub-part}"
\* is appended to the latest reference in place, the number of references and
\* the earlier references stay as they were, and no record is emitted.
C13_ColonlessPartContinuesUnlessBookStart ==
    (Stepped /\ Truthy(previous.current_book)
        /\ ~starts_with_book_name(previous.part)
        /\ VersePattern(previous.part) /\ ~HasColon(previous.part))
        => ContinuedLast

\* verses continued onto a reference that is not the first
C13_Witness ==
    /\ Stepped /\ Truthy(previous.current_book)
    /\ ~starts_with_book_name(previous.part)
    /\ VersePattern(previous.part) /\ ~HasColon(previous.part)
    /\ Len(previous.results) > 1 /\ Len(results) = Len(previous.results)

\* the sub-part of the latest iteration is neither a book start nor of
\* verse-locator shape, and a book is current
AmbiguousStep ==
    /\ Stepped /\ Truthy(previous.current_book)
    /\ ~starts_with_book_name(previous.part)
    /\ ~VersePattern(previous.part)

C15_NoBookContextVerbatim ==
    (Stepped /\ ~Truthy(previous.current_book)
        /\ ~starts_with_book_name(previous.part))
        => /\ EmittedAsNew(previous.part)
           /\ OneRecord("NO_BOOK_CONTEXT")
           /\ ~Truthy(current_book)

\* a second sub-part met without a current book
C15_Witness ==
    /\ Stepped /\ ~Truthy(previous.current_book)
    /\ ~starts_with_book_name(previous.part)
    /\ previous.results # <<>>
    /\ results = Append(previous.results, previous.part)
    /\ Len(edge_cases) = Len(previous.edge_cases) + 1

\* s holds nothing but delimiters and whitespace
OnlyDelimiters(s) == \A k \in 1..Len(s) : s[k] \in {";", ","} \cup Whitespace

\* the raw citation is a string with something left after trimming
NonBlank == raw # None /\ Strip(raw) # <<>>

\* C16: the walk of a citation that is non-empty after trimming yields no
\* reference exactly when the citation holds only ';', ',' and whitespace;
\* the call then emits exactly one EMPTY_RESULT record and returns the
\* trimmed, typo-corrected citation as its single reference.
C16_EmptyResultFallback ==
    /\ (pc = "validate" /\ NonBlank) => (results = <<>> <=> OnlyDelimiters(raw))
    /\ (pc = "done" /\ NonBlank /\ OnlyDelimiters(raw))
           => /\ results = <<ApplyCorrections(Strip(raw), 1)>>
              /\ Len(edge_cases) = 1
              /\ edge_cases[1].category = "EMPTY_RESULT"
              /\ edge_cases[1].raw = results[1]

\* a returned call on a citation of several delimiters
C16_Witness ==
    /\ pc = "done" /\ NonBlank /\ OnlyDelimiters(raw)
    /\ \E k \in 1..Len(raw) : raw[k] = ";"
    /\ \E k \in 1..Len(raw) : raw[k] = ","
    /\ Len(edge_cases) = 1 /\ edge_cases[1].category = "EMPTY_RESULT"

\* C17: a raw citation that is absent, empty or whitespace only gives the
\* empty sequence and no record: the call returns at once.
C17_BlankGivesNothing ==
    (pc # "call" /\ (raw = None \/ Strip(raw) = <<>>))
        => pc = "done" /\ results = <<>> /\ edge_cases = <<>>

\* a returned call on a whitespace-only citation
C17_Witness ==
    /\ pc = "done" /\ raw # None /\ raw # <<>> /\ Strip(raw) = <<>>
    /\ results = <<>> /\ edge_cases = <<>>

\* C18: current_book is unset when the walk begins, is changed within a call
\* only by a sub-part that matches a book start, and is not reset when the
\* walk crosses a semicolon: the first sub-part of a segment finds the value
\* the last sub-part of the segment before it left.
C18_BookCarriedAcrossSegments ==
    /\ (pc = "call" \/ ~previous.walked) => current_book = None
    /\ (previous.walked /\ pc \in {"walk", "validate", "done"}
           /\ ~starts_with_book_name(previous.part))
           => current_book = previous.current_book
    /\ (previous.walked /\ pc = "walk" /\ semi_index > previous.semi_index)
           => /\ i = 1 /\ semi_index = previous.semi_index + 1
              /\ current_book =
                     IF starts_with_book_name(previous.part)
                     THEN extract_book_name(previous.part)
                     ELSE previous.current_book

\* a sub-part without a book that opens a later segment under the book of
\* an earlier segment
C18_Witness ==
    /\ Stepped /\ previous.semi_index > 1 /\ previous.i = 1
    /\ ~starts_with_book_name(previous.part)
    /\ Truthy(previous.current_book) /\ current_book = previous.current_book

\* s opens with a wrong prefix of the correction table
HasWrongPrefix(s) ==
    \E k \in 1..Len(SOURCE_CORRECTIONS) : StartsWith(s, SOURCE_CORRECTIONS[k][1])

\* s with the wrong prefix it opens with replaced by the right one
WithRightPrefix(s) ==
    LET k == CHOOSE n \in 1..Len(SOURCE_CORRECTIONS) :
                 StartsWith(s, SOURCE_CORRECTIONS[n][1])
    IN  SOURCE_CORRECTIONS[k][2]
            \o SubSeq(s, Len(SOURCE_CORRECTIONS[k][1]) + 1, Len(s))

\* C19: a citation that starts with a wrong prefix of the correction table
\* is parsed as the citation with the right prefix is, and a sub-part met
\* in the walk that starts with a wrong prefix is emitted as it is spelled,
\* alone or under the current book.
C19_TypoCorrectedOnceAtStart ==
    /\ (Returned /\ HasWrongPrefix(Strip(raw)))
           => LET st == split_references(WithRightPrefix(Strip(raw)), reading_type)
              IN  results = st.results /\ edge_cases = st.edge_cases
    /\ (Stepped /\ HasWrongPrefix(previous.part))
           => \/ results = Append(previous.results, previous.part)
              \/ results = Append(previous.results,
                                  Qualify(previous.current_book, previous.part))

\* a returned call on a citation that starts with a wrong prefix and holds a
\* later sub-part that starts with one too
C19_Witness ==
    /\ Returned /\ HasWrongPrefix(Strip(raw)) /\ HasWrongPrefix(previous.part)
    /\ Len(results) >= 2
    /\ results[1] = WithRightPrefix(SubParts(Strip(raw))[1])
    /\ Contains(results[Len(results)], previous.part)

\* the multi-word names C20 lists
MultiWordNames == {
    <<"S","o","n","g"," ","o","f"," ","S","o","l","o","m","o","n">>,
    <<"S","o","n","g"," ","o","f"," ","S","o","n","g","s">>,
    <<"W","i","s","d","."," ","o","f"," ","S","o","l",".">> }

\* part is the name m and then, after optional whitespace, a chapter number
NameThenChapter(part, m) ==
    /\ StartsWith(part, m)
    /\ LET r == SkipWhitespace(part, Len(m) + 1)
       IN  r <= Len(part) /\ part[r] \in Digit

\* C20: a sub-part that is one of the multi-word names "Song of Solomon",
\* "Song of Songs", "Wisd. of Sol." followed by a chapter makes the whole
\* name the current book, and a reference emitted for a later sub-part
\* without a book begins with the whole name.
C20_MultiWordNameWhole ==
    /\ \A m \in MultiWordNames :
           (Stepped /\ NameThenChapter(previous.part, m)) => current_book = m
    /\ \A m \in MultiWordNames :
           (Stepped /\ previous.current_book = m
               /\ ~starts_with_book_name(previous.part)
               /\ Len(results) > Len(previous.results))
               => results[Len(results)] = m \o <<" ">> \o previous.part

\* a returned call in which "Song of Songs" or "Wisd. of Sol." was the
\* current book and prefixed the last sub-part
C20_Witness ==
    /\ pc = "done" /\ previous.walked
    /\ previous.current_book \in MultiWordNames
    /\ previous.current_book # <<"S","o","n","g"," ","o","f"," ","S","o","l","o","m","o","n">>
    /\ ~starts_with_book_name(previous.part)
    /\ results[Len(results)] = previous.current_book \o <<" ">> \o previous.part

\* ------------------------------------------------------------------------
\* Properties of a split_psalm_references call
\* ------------------------------------------------------------------------

\* the trimmed citation without one leading "Psalm" or "Psalms", letter case
\* ignored
PsalmRemainder(s) ==
    LET t == Strip(s)
    IN  IF StartsWith(LowerStr(t), <<"p","s","a","l","m","s">>)
        THEN SubSeq(t, 7, Len(t))
        ELSE IF StartsWith(LowerStr(t), <<"p","s","a","l","m">>)
        THEN SubSeq(t, 6, Len(t))
        ELSE t

\* the number of occurrences of c in s
CountOf(s, c) == Cardinality({k \in 1..Len(s) : s[k] = c})

\* C21: split_psalm_references returns the empty sequence for an absent,
\* empty or blank citation, and otherwise the non-empty trimmed pieces
\* between the semicolons of the citation without one leading "Psalm" or
\* "Psalms", in order and verbatim: every comma of the citation stays
\* inside one entry and no entry holds text the citation does not hold.
C21_PsalmSegmentsVerbatim ==
    psalm_pc = "done" =>
        IF psalm_raw = None \/ Strip(psalm_raw) = <<>>
        THEN psalm_results = <<>>
        ELSE LET pieces == SplitOn(PsalmRemainder(psalm_raw), ";")
                 kept   == SelectSeq(pieces, LAMBDA p : Strip(p) # <<>>)
             IN  /\ Len(psalm_results) = Len(kept)
                 /\ \A k \in 1..Len(kept) :
                        /\ psalm_results[k] = Strip(kept[k])
                        /\ Contains(psalm_raw, psalm_results[k])
                 /\ CountOf(Flatten(psalm_results), ",") = CountOf(psalm_raw, ",")

\* a returned call on a lower-case "psalm" citation with a comma inside its
\* first segment
C21_Witness ==
    /\ psalm_pc = "done" /\ psalm_raw # None
    /\ StartsWith(psalm_raw, <<"p","s","a","l","m">>)
    /\ Len(psalm_results) = 2
    /\ CountOf(psalm_results[1], ",") = 1

\* ------------------------------------------------------------------------
\* Properties of several calls
\* ------------------------------------------------------------------------

\* C22: in a run of split_references calls, every call returns the
\* references and emits the records that a call on its citation alone
\* returns and emits, whatever was parsed before it.
C22_EachCallAsIfAlone ==
    pc = "done" =>
        LET alone == split_references(raw, reading_type)
        IN  results = alone.results /\ edge_cases = alone.edge_cases

\* a later call that met a sub-part without a book after an earlier call
\* that had logged
C22_Witness ==
    /\ pc = "done" /\ calls >= 2 /\ logged # <<>>
    /\ Len(edge_cases) = 1 /\ edge_cases[1].category = "NO_BOOK_CONTEXT"
    /\ results = <<raw>>

\* ------------------------------------------------------------------------
\* Properties of concurrent calls
\* ------------------------------------------------------------------------

\* the records in the log that parse w wrote, oldest first
WrittenBy(w) ==
    LET own == SelectSeq(sink, LAMBDA e : e.parse = w)
    IN  [k \in 1..Len(own) |-> own[k].record]

RECURSIVE SumOver(_, _)
SumOver(f, ws) ==
    IF ws = {} THEN 0
    ELSE LET w == CHOOSE x \in ws : TRUE IN f[w] + SumOver(f, ws \ {w})

\* C23: under every interleaving of the parses, at every moment the log
\* holds exactly the records the parses have emitted so far, those of each
\* parse in the order it emitted them, and a parse that has returned has
\* the references and the records of a call on its citation alone.
C23_InterleavingsKeepParsesApart ==
    /\ \A w \in DOMAIN workers : WrittenBy(w) = workers[w].edge_cases
    /\ Len(sink) = SumOver([w \in DOMAIN workers |-> Len(workers[w].edge_cases)],
                           DOMAIN workers)
    /\ \A w \in DOMAIN workers :
           workers[w].pc = "done" =>
               LET alone == split_references(workers[w].raw, workers[w].reading_type)
               IN  /\ workers[w].results = alone.results
                   /\ workers[w].edge_cases = alone.edge_cases

\* all parses have returned and the records of two of them alternate in
\* the log
C23_Witness ==
    /\ workers # <<>>
    /\ \A w \in DOMAIN workers : workers[w].pc = "done"
    /\ Len(sink) >= 3
    /\ sink[1].parse = sink[3].parse /\ sink[1].parse # sink[2].parse

\* ------------------------------------------------------------------------
\* Properties of a merge_lectionary call
\* ------------------------------------------------------------------------

\* the scraped values C24 routes to split_references, with the label and
\* the position of each
READING_ROUTES == <<
    [key |-> "First Reading", label |-> "first", position |-> 1],
    [key |-> "Second Reading", label |-> "second", position |-> 2],
    [key |-> "Gospel", label |-> "gospel", position |-> 3] >>

\* the value of the page of date under key is a non-empty string
Present(date, key) ==
    LET r == scraped_readings[date].readings
    IN  key \in DOMAIN r /\ r[key] # None /\ r[key] # <<>>

\* the reading entries C24 expects for the page of date
ExpectedReadings(date) ==
    LET routes == SelectSeq(READING_ROUTES, LAMBDA x : Present(date, x.key))
    IN  [k \in 1..Len(routes) |->
            [position |-> routes[k].position,
             label |-> routes[k].label,
             references |->
                 split_references(scraped_readings[date].readings[routes[k].key],
                                  routes[k].label).results]]

\* the psalm lists C24 expects for date
ExpectedPsalms(date) ==
    IF date \notin DOMAIN scraped_readings
    THEN [morning |-> <<>>, evening |-> <<>>]
    ELSE [morning |-> IF Present(date, "Morning")
                      THEN split_psalm_references(
                               scraped_readings[date].readings["Morning"])
                      ELSE <<>>,
          evening |-> IF Present(date, "Evening")
                      THEN split_psalm_references(
                               scraped_readings[date].readings["Evening"])
                      ELSE <<>>]

\* the dates the list gives for the position key
DatesFor(list, pos_key) ==
    {list[k].date : k \in {j \in 1..Len(list) :
        create_position_key(list[j].period, list[j].day_identifier) = pos_key}}

\* C24: the readings of a position in a year are those of First Reading,
\* Second Reading and Gospel of one scraped page of that position, each
\* split by split_references and labelled first, second, gospel with
\* position 1, 2, 3, in that order, the absent ones left out; its psalms are
\* Morning and Evening of one page split by split_psalm_references, an
\* absent value giving the empty list.
C24_ReadingsAndPsalmsRouted ==
    \A pos_key \in DOMAIN positions :
        LET data == positions[pos_key]
        IN  /\ data.year_1 # NoDict =>
                   \E date \in DatesFor(plan.year_1_dates, pos_key)
                                \cap DOMAIN scraped_readings :
                       /\ data.year_1 = [readings |-> ExpectedReadings(date)]
                       /\ ExpectedReadings(date) # <<>>
            /\ data.year_2 # NoDict =>
                   \E date \in DatesFor(plan.year_2_dates, pos_key)
                                \cap DOMAIN scraped_readings :
                       /\ data.year_2 = [readings |-> ExpectedReadings(date)]
                       /\ ExpectedReadings(date) # <<>>
            /\ \E date \in DatesFor(plan.year_1_dates, pos_key)
                            \cup DatesFor(plan.year_2_dates, pos_key) :
                   data.psalms = ExpectedPsalms(date)

\* a merged position whose page held no Second Reading and no Morning
C24_Witness ==
    /\ merge_pc = "done"
    /\ \E pos_key \in DOMAIN positions :
           LET data == positions[pos_key]
           IN  /\ data.year_1 # NoDict
               /\ Len(data.year_1.readings) = 2
               /\ data.year_1.readings[2].position = 3
               /\ data.year_1.readings[2].label = "gospel"
               /\ data.psalms.morning = <<>>
               /\ data.psalms.evening # <<>>

\* the (period, day_identifier) pairs of the entries of a list
PairsOf(list) == {<<list[k].period, list[k].day_identifier>> : k \in 1..Len(list)}

\* C30: the returned daily_lectionary holds exactly one entry for each
\* (period, day_identifier) pair of the two plan lists, total_positions is
\* the number of entries, and year_1_complete and year_2_complete are the
\* numbers of entries whose year_1 and year_2 are not null.
C30_OneEntryPerPosition ==
    merge_pc = "done" =>
        LET daily == output.daily_lectionary
            pairs == PairsOf(plan.year_1_dates) \cup PairsOf(plan.year_2_dates)
        IN  /\ Len(daily) = Cardinality(pairs)
            /\ PairsOf(daily) = pairs
            /\ output.metadata.total_positions = Len(daily)
            /\ output.metadata.year_1_complete =
                   Cardinality({k \in 1..Len(daily) : daily[k].year_1 # NoDict})
            /\ output.metadata.year_2_complete =
                   Cardinality({k \in 1..Len(daily) : daily[k].year_2 # NoDict})

\* a returned merge of lists that repeat a position, with a position that
\* has readings in neither year
C30_Witness ==
    /\ merge_pc = "done"
    /\ Len(plan.year_1_dates) + Len(plan.year_2_dates) > Len(output.daily_lectionary)
    /\ output.metadata.total_positions = 2
    /\ missing_both = 1
    /\ output.metadata.year_1_complete = 1

\* ------------------------------------------------------------------------
\* Properties of the reading_type argument and of the current book
\* ------------------------------------------------------------------------

\* the reading types merge_readings passes
AllReadingTypes == {"first", "second", "gospel"}

\* the categories and fragments of a sequence of records, in order
CategoriesAndFragments(records) ==
    [k \in 1..Len(records) |-> <<records[k].category, records[k].fragment>>]

\* C26: reading_type is logging context only: a call on the same citation
\* with any other reading_type returns the same references and emits
\* records of the same categories and fragments in the same order.
C26_ReadingTypeOnlyLogged ==
    pc = "done" =>
        \A other_type \in AllReadingTypes :
            LET other == split_references(raw, other_type)
            IN  /\ other.results = results
                /\ other.exception = exception
                /\ CategoriesAndFragments(other.edge_cases) =
                       CategoriesAndFragments(edge_cases)
                /\ \A k \in 1..Len(other.edge_cases) :
                       other.edge_cases[k].reading_type = other_type

\* a returned gospel call that fell back to the citation and logged it
C26_Witness ==
    /\ pc = "done" /\ reading_type = "gospel"
    /\ results # <<>>
    /\ \E k \in 1..Len(edge_cases) :
           /\ edge_cases[k].category = "EMPTY_RESULT"
           /\ edge_cases[k].reading_type = "gospel"

\* C27: whenever current_book is set, results is not empty and its last
\* reference begins with current_book; so an iteration that meets a
\* sub-part of verse shape under a current book finds a previous reference,
\* and that reference is one of the current book.
C27_CurrentBookHeadsLastReference ==
    /\ (pc \in {"walk", "validate", "done"} /\ Truthy(current_book)) =>
           /\ results # <<>>
           /\ StartsWith(results[Len(results)], current_book)
    /\ (/\ Stepped /\ Truthy(previous.current_book)
        /\ ~starts_with_book_name(previous.part)
        /\ VersePattern(previous.part)) =>
           /\ previous.results # <<>>
           /\ StartsWith(previous.results[Len(previous.results)],
                         previous.current_book)

\* an iteration that appended verses to the reference of the current book,
\* which is not the book of the first reference
C27_Witness ==
    /\ Stepped /\ Truthy(previous.current_book) /\ current_book = previous.current_book
    /\ VersePattern(previous.part) /\ ~HasColon(previous.part)
    /\ ~starts_with_book_name(previous.part)
    /\ Len(results) = Len(previous.results)
    /\ StartsWith(results[Len(results)], current_book)
    /\ Len(results) >= 2 /\ ~StartsWith(results[1], current_book)

\* ------------------------------------------------------------------------
\* Properties of scraper runs
\* ------------------------------------------------------------------------

\* the keys of "completed" in the progress file
PersistedCompleted == load_progress(progress_file).completed

\* the keys of "failed" in the progress file
PersistedFailed == load_progress(progress_file).failed

\* C25: whenever a run is between two pages or has stopped, every date
\* fetched successfully so far is under "completed" in the progress file,
\* and no run fetches a date that the file has under "completed".
C25_ProgressSavedAfterEachPage ==
    /\ scraper_pc \in {"sleep", "scrape", "stopped"} =>
           fetched \subseteq PersistedCompleted
    /\ refetched = {}

\* a second run over a range whose first date the first run fetched before
\* it was interrupted: it resumes at the second date
C25_Witness ==
    /\ scraper_pc = "scrape" /\ runs = 2
    /\ progress_file # NoFile
    /\ progress_file.date_range = [start |-> 1, end |-> 2]
    /\ progress.date_range = [start |-> 1, end |-> 2]
    /\ fetched = {1} /\ PersistedCompleted = {1} /\ PersistedFailed = {}
    /\ remaining_urls = <<2>>

\* the dates of the range of the progress file
RangeDates ==
    LET p == load_progress(progress_file)
    IN  IF p.date_range = NoDict THEN {}
        ELSE {d \in Dates : p.date_range.start <= d /\ d <= p.date_range.end}

\* C29: after any sequence of runs no date is under both "completed" and
\* "failed" in the progress file, and the Remaining of the status report is
\* the number of dates of the range under neither, never negative.
C29_RemainingCountsUnattemptedDates ==
    (scraper_pc = "stopped" /\ load_progress(progress_file).date_range # NoDict) =>
        /\ PersistedCompleted \cap PersistedFailed = {}
        /\ show_status(progress_file).remaining =
               Cardinality(RangeDates \ (PersistedCompleted \cup PersistedFailed))
        /\ show_status(progress_file).remaining >= 0

\* ------------------------------------------------------------------------
\* Properties of the plan lists
\* ------------------------------------------------------------------------

\* the position keys of the entries of a list are pairwise different
DistinctPositionKeys(list) ==
    \A j \in 1..Len(list), k \in 1..Len(list) :
        j # k => create_position_key(list[j].period, list[j].day_identifier)
                 # create_position_key(list[k].period, list[k].day_identifier)

\* C28: in every plan list each (period, day_identifier) position key occurs
\* at most once, and generate_dated_week_dates yields at most seven entries,
\* one per weekday.
C28_PositionKeysOccurOnce ==
    /\ Len(dates) <= 7
    /\ DistinctPositionKeys(dates)
    /\ gen_pc = "done" =>
           DistinctPositionKeys(year_dates[1]) /\ DistinctPositionKeys(year_dates[2])

====
